---- MODULE Spec2Model ----
(***************************************************************************)
(* State-machine model of the heim_api back office: the Payment lifecycle  *)
(* (payments/domain/models.py, payments/application/commands/handlers.py,  *)
(* payments/infrastructure/repositories.py) and the rows it references     *)
(* (Transaction, Customer, MotorVehicle) with their on_delete rules.       *)
(*                                                                         *)
(* Conventions                                                             *)
(*   - Python None is the empty tuple <<>>, a present value v is <<v>>.    *)
(*   - Python str values that the code inspects character by character     *)
(*     (names, emails, phones, VINs) are tuples of one-character strings;  *)
(*     opaque text (notes) is a TLA+ string.                               *)
(*   - A Decimal is [coef, exp] (value coef * 10^exp), as as_tuple() gives.*)
(*   - A database table is a function from primary key to row.             *)
(*   - A handler call is one action: it runs to completion inside one      *)
(*     request; lastOp records which handler ran, on which id, the         *)
(*     exception it raised ("ok" when it returned) and the events it       *)
(*     published. In ConcSpec and PayConcSpec a request is split at its    *)
(*     database statements and the requests in flight are kept in procs.   *)
(*   - The customer and vehicle handlers, the value objects VIN and        *)
(*     PhoneNumber, the EventDispatcher and heim_customers.Customer with   *)
(*     generate_customer_id are modelled in sections of their own.         *)
(*   - created_at / updated_at columns are not modelled.                   *)
(***************************************************************************)
EXTENDS Integers, Sequences, FiniteSets, TLC

\* ------------------------------------------------------------------ bounds
MaxPayments == 2
MaxFieldPayments == 1
MaxRefPayments == 1
MaxCustomers == 1
MaxVehicles == 1
MaxTransactions == 1
MaxAddrCustomers == 2
MaxAddresses == 3
MaxRequests == 2
MaxCustCustomers == 2
MaxMileage == 2
MaxVehCustomers == 2
MaxVehVehicles == 1
MaxVinVehicles == 3
MaxSuffixLen == 2
MaxPhoneLen == 3
MaxSubscriptions == 2
MaxTicks == 4
MaxHeimCustomers == 2
MaxNotifyCustomers == 1
MaxNotifyVehicles == 1
MaxNotifyAddresses == 1

\* ------------------------------------------------------- program constants
\* Payment.PAYMENT_METHODS (codes)
PAYMENT_METHODS == {"CASH", "CARD", "CHECK", "ACH", "WIRE"}
\* Payment.PAYMENT_STATUSES (codes)
PAYMENT_STATUSES == {"PENDING", "COMPLETED", "FAILED", "REFUNDED", "CANCELLED"}
\* amount = DecimalField(max_digits=12, decimal_places=2)
AmountMaxDigits == 12
AmountDecimalPlaces == 2
\* reference_number = CharField(max_length=64)
ReferenceMaxLength == 64

None == <<>>
Some(v) == <<v>>

\* ------------------------------------------------------------ input values
Dec(c, e) == [coef |-> c, exp |-> e]
\* a reference number: its text and its length in characters
Ref(t, n) == [text |-> t, len |-> n]

\* transaction ids a payment command may name: the stored ones and one more
TransactionIdInputs == 1..3

VARIABLES
    customers,        \* table customers_customer: id -> row
    nextCustomerId,   \* last id handed out by the customers sequence
    vehicles,         \* table motor_vehicles: id -> row
    nextVehicleId,
    transactions,     \* table motor_vehicle_transactions: id -> row
    nextTransactionId,
    payments,         \* table payments_payment: payment_id -> row
    nextPaymentId,    \* number of payment ids generated so far (uuid4 never repeats)
    obj,              \* an in-memory instance: a Payment (aggregate tests) or a value object
    lastOp,           \* the last handler / method call and its outcome
    addresses,        \* table customers_address: id -> row
    nextAddressId,    \* last id handed out by the addresses sequence
    procs,            \* requests in flight: request -> its position and locals
    dispatcher,       \* EventDispatcher._handlers: event type -> list of handlers
    received,         \* the handler calls made by the last publish, in order
    heimCustomers,    \* table heim_customers_customer: customer_id -> row
    now               \* the clock datetime.now() reads, in half seconds since Epoch

vars == <<customers, nextCustomerId, vehicles, nextVehicleId, transactions,
          nextTransactionId, payments, nextPaymentId, obj, lastOp,
          addresses, nextAddressId, procs,
          dispatcher, received, heimCustomers, now>>

refVars == <<customers, nextCustomerId, vehicles, nextVehicleId, transactions,
             nextTransactionId, addresses, nextAddressId, procs,
             dispatcher, received, heimCustomers, now>>

\* a handler call: its name, the id its command names, the exception raised
\* ("ok" when it returned), the key of the returned row (0 when none) and
\* the command's other fields (NoCmd for a command that only carries an id)
Op(op, id, result, ret, cmd) ==
    [op |-> op, id |-> id, result |-> result, ret |-> ret, cmd |-> cmd,
     events |-> <<>>]
\* the same for a handler call that published the given events, in order
OpEv(op, id, result, ret, cmd, events) ==
    [op |-> op, id |-> id, result |-> result, ret |-> ret, cmd |-> cmd,
     events |-> events]
NoCmd == <<>>

\* the event types the dispatcher is used with, and the dispatcher without
\* subscriptions (a defaultdict(list))
EventTypes == {"CustomerCreated", "CustomerUpdated"}
NoHandlers == [t \in EventTypes |-> <<>>]
NoOp == Op("none", 0, "ok", 0, NoCmd)

\* a table without the row of key k
Without(table, k) == [x \in DOMAIN table \ {k} |-> table[x]]

\* ------------------------------------------------------- Decimal validation
RECURSIVE NumDigits(_)
NumDigits(n) == IF n < 10 THEN 1 ELSE 1 + NumDigits(n \div 10)

Abs(i) == IF i < 0 THEN -i ELSE i

\* django DecimalValidator(max_digits, decimal_places) on as_tuple() of d
DecimalDigits(d) ==
    IF d.exp >= 0
    THEN IF d.coef = 0 THEN 1 ELSE NumDigits(d.coef) + d.exp
    ELSE IF Abs(d.exp) > NumDigits(d.coef) THEN Abs(d.exp) ELSE NumDigits(d.coef)

DecimalPlaces(d) == IF d.exp >= 0 THEN 0 ELSE Abs(d.exp)

DecimalFieldValid(d, maxDigits, places) ==
    /\ DecimalDigits(d) <= maxDigits
    /\ DecimalPlaces(d) <= places
    /\ DecimalDigits(d) - DecimalPlaces(d) <= maxDigits - places

\* ----------------------------------------------------------- Payment model
NewPayment(payment_id, transaction_id, payment_method, amount, status, reference_number, notes) ==
    [payment_id |-> payment_id,
     transaction_id |-> transaction_id, payment_method |-> payment_method,
     amount |-> amount, status |-> status,
     reference_number |-> reference_number, notes |-> notes]

\* Payment.is_completed
is_completed(p) == p.status = "COMPLETED"

\* variant: every payment that is not yet refunded counts as refundable
is_refundable_unless_refunded(p) == p.status # "REFUNDED"

\* Payment.is_refundable
is_refundable(p) == p.status = "COMPLETED"

\* The three mutation methods return [raised, payment]: raised is TRUE when
\* the method raised ValueError, payment is the instance afterwards.
\* Payment.complete
PaymentComplete(p) ==
    [raised |-> FALSE, payment |-> [p EXCEPT !.status = "COMPLETED"]]

\* Payment.refund
PaymentRefund(p) ==
    IF ~is_refundable(p)
    THEN [raised |-> TRUE, payment |-> p]
    ELSE [raised |-> FALSE, payment |-> [p EXCEPT !.status = "REFUNDED"]]

\* Payment.cancel
PaymentCancel(p) ==
    IF p.status # "PENDING"
    THEN [raised |-> TRUE, payment |-> p]
    ELSE [raised |-> FALSE, payment |-> [p EXCEPT !.status = "CANCELLED"]]

\* Model.full_clean() for a Payment: field validators and the foreign key
PaymentFullClean(p, txs) ==
    /\ p.transaction_id \in DOMAIN txs
    /\ p.payment_method \in PAYMENT_METHODS
    /\ DecimalFieldValid(p.amount, AmountMaxDigits, AmountDecimalPlaces)
    /\ p.status \in PAYMENT_STATUSES
    /\ p.reference_number.len <= ReferenceMaxLength

\* ----------------------------------------------------- PaymentRepository
\* variant: the filter on payment_id is lost and first() returns any row
PaymentGetByIdUnfiltered(payment_id) ==
    IF DOMAIN payments # {}
    THEN Some(payments[CHOOSE p \in DOMAIN payments : TRUE]) ELSE None

\* PaymentRepository.get_by_id
PaymentGetById(payment_id) ==
    IF payment_id \in DOMAIN payments THEN Some(payments[payment_id]) ELSE None

\* variant: the default status is another member of PAYMENT_STATUSES
CreateDefaultStatusFailed == "FAILED"

\* the status argument default of PaymentRepository.create
CreateDefaultStatus == "PENDING"

\* PaymentRepository.create: build, full_clean, save under a fresh uuid
PaymentRepositoryCreate(command, transaction_id, payment_method, amount, reference_number, notes) ==
    LET pid == nextPaymentId + 1
        payment == NewPayment(pid, transaction_id, payment_method, amount,
                              CreateDefaultStatus, reference_number, notes)
    IN  IF ~PaymentFullClean(payment, transactions)
        THEN /\ lastOp' = Op("create", transaction_id, "ValidationError", 0, command)
             /\ UNCHANGED <<payments, nextPaymentId>>
        ELSE /\ payments' = (pid :> payment) @@ payments
             /\ nextPaymentId' = pid
             /\ lastOp' = Op("create", transaction_id, "ok", pid, command)

\* variant: save() without the full_clean() call
PaymentRepositorySaveUnvalidated(op, payment_id, payment, cmd) ==
    /\ payments' = (payment.payment_id :> payment) @@ payments
    /\ lastOp' = Op(op, payment_id, "ok", payment.payment_id, cmd)

\* PaymentRepository.save: full_clean, then write the row back
PaymentRepositorySave(op, payment_id, payment, cmd) ==
    IF ~PaymentFullClean(payment, transactions)
    THEN /\ lastOp' = Op(op, payment_id, "ValidationError", 0, cmd)
         /\ UNCHANGED payments
    ELSE /\ payments' = (payment.payment_id :> payment) @@ payments
         /\ lastOp' = Op(op, payment_id, "ok", payment.payment_id, cmd)

\* PaymentRepository.delete
PaymentRepositoryDelete(payment) ==
    payments' = Without(payments, payment.payment_id)

\* a handler that raises before it writes anything
Raise(op, id, exc, cmd) ==
    /\ lastOp' = Op(op, id, exc, 0, cmd)
    /\ UNCHANGED payments

\* ------------------------------------------------- PaymentCommandHandler
\* CreatePaymentCommand values over the given field values
CreatePaymentCommand(txIds, methods, amounts, references, notes) ==
    [transaction_id : txIds, payment_method : methods, amount : amounts,
     reference_number : references, notes : notes]

Opt(S) == {None} \cup {Some(v) : v \in S}

\* UpdatePaymentCommand values: every field but payment_id may be None
UpdatePaymentCommand(ids, methods, amounts, references, notes) ==
    [payment_id : ids, payment_method : Opt(methods), amount : Opt(amounts),
     reference_number : Opt(references), notes : Opt(notes)]

\* variant: the handler does not look the transaction up before creating
handle_create_without_lookup(command) ==
    /\ PaymentRepositoryCreate(command, command.transaction_id,
            command.payment_method, command.amount,
            command.reference_number, command.notes)
    /\ UNCHANGED <<refVars, obj>>

\* PaymentCommandHandler.handle_create
handle_create(command) ==
    /\ IF command.transaction_id \notin DOMAIN transactions
       THEN /\ Raise("create", command.transaction_id, "ValueError: not found", command)
            /\ UNCHANGED nextPaymentId
       ELSE PaymentRepositoryCreate(command, command.transaction_id,
                command.payment_method, command.amount,
                command.reference_number, command.notes)
    /\ UNCHANGED <<refVars, obj>>

\* variant: an update also puts the payment back to PENDING
ApplyUpdateResettingStatus(payment, command) ==
    [payment EXCEPT
        !.status = "PENDING",
        !.payment_method = IF command.payment_method # None
                           THEN command.payment_method[1] ELSE @,
        !.amount = IF command.amount # None THEN command.amount[1] ELSE @,
        !.reference_number = IF command.reference_number # None
                             THEN command.reference_number[1] ELSE @,
        !.notes = IF command.notes # None THEN command.notes[1] ELSE @]

\* the in-memory payment after the four conditional assignments of handle_update
ApplyUpdate(payment, command) ==
    [payment EXCEPT
        !.payment_method = IF command.payment_method # None
                           THEN command.payment_method[1] ELSE @,
        !.amount = IF command.amount # None THEN command.amount[1] ELSE @,
        !.reference_number = IF command.reference_number # None
                             THEN command.reference_number[1] ELSE @,
        !.notes = IF command.notes # None THEN command.notes[1] ELSE @]

\* PaymentCommandHandler.handle_update
handle_update(command) ==
    LET found == PaymentGetById(command.payment_id) IN
    /\ IF found = None
       THEN Raise("update", command.payment_id, "PaymentNotFound", command)
       ELSE PaymentRepositorySave("update", command.payment_id,
                                  ApplyUpdate(found[1], command), command)
    /\ UNCHANGED <<refVars, nextPaymentId, obj>>

\* PaymentCommandHandler.handle_delete
handle_delete(payment_id) ==
    LET found == PaymentGetById(payment_id) IN
    /\ IF found = None
       THEN Raise("delete", payment_id, "PaymentNotFound", NoCmd)
       ELSE /\ PaymentRepositoryDelete(found[1])
            /\ lastOp' = Op("delete", payment_id, "ok", 0, NoCmd)
    /\ UNCHANGED <<refVars, nextPaymentId, obj>>

\* variant: the guard only rejects payments that are already completed
CompleteAllowedUnlessCompleted(payment) == payment.status # "COMPLETED"

\* the handler's own guard in handle_complete
CompleteAllowed(payment) == payment.status = "PENDING"

\* PaymentCommandHandler.handle_complete
handle_complete(payment_id) ==
    LET found == PaymentGetById(payment_id) IN
    /\ IF found = None
       THEN Raise("complete", payment_id, "PaymentNotFound", NoCmd)
       ELSE IF ~CompleteAllowed(found[1])
       THEN Raise("complete", payment_id, "InvalidPaymentState", NoCmd)
       ELSE LET r == PaymentComplete(found[1]) IN
            IF r.raised
            THEN Raise("complete", payment_id, "ValueError", NoCmd)
            ELSE PaymentRepositorySave("complete", payment_id, r.payment, NoCmd)
    /\ UNCHANGED <<refVars, nextPaymentId, obj>>

\* the handler's own guard in handle_refund
RefundAllowed(payment) == is_refundable(payment)

\* PaymentCommandHandler.handle_refund
handle_refund(payment_id) ==
    LET found == PaymentGetById(payment_id) IN
    /\ IF found = None
       THEN Raise("refund", payment_id, "PaymentNotFound", NoCmd)
       ELSE IF ~RefundAllowed(found[1])
       THEN Raise("refund", payment_id, "InvalidPaymentState", NoCmd)
       ELSE LET r == PaymentRefund(found[1]) IN
            IF r.raised
            THEN Raise("refund", payment_id, "ValueError", NoCmd)
            ELSE PaymentRepositorySave("refund", payment_id, r.payment, NoCmd)
    /\ UNCHANGED <<refVars, nextPaymentId, obj>>

\* variant: the guard only rejects payments that are already cancelled
CancelAllowedUnlessCancelled(payment) == payment.status # "CANCELLED"

\* the handler's own guard in handle_cancel
CancelAllowed(payment) == payment.status = "PENDING"

\* PaymentCommandHandler.handle_cancel
handle_cancel(payment_id) ==
    LET found == PaymentGetById(payment_id) IN
    /\ IF found = None
       THEN Raise("cancel", payment_id, "PaymentNotFound", NoCmd)
       ELSE IF ~CancelAllowed(found[1])
       THEN Raise("cancel", payment_id, "InvalidPaymentState", NoCmd)
       ELSE LET r == PaymentCancel(found[1]) IN
            IF r.raised
            THEN Raise("cancel", payment_id, "ValueError", NoCmd)
            ELSE PaymentRepositorySave("cancel", payment_id, r.payment, NoCmd)
    /\ UNCHANGED <<refVars, nextPaymentId, obj>>

\* -------------------------------------------------- payments specification
\* the rows the command tests insert in setUp before exercising the handler:
\* one customer, one vehicle and two transactions between them
FixtureCustomers ==
    1 :> [given_names |-> <<"J", "o", "h", "n">>, surnames |-> <<"D", "o", "e">>,
          email |-> <<"j", "@", "e", ".", "c", "o">>, phone |-> <<>>]
FixtureVehicles ==
    1 :> [vin |-> <<"1","H","G","C","M","8","2","6","3","3","A","0","0","4","3","5","2">>,
          owner_id |-> None, mileage_km |-> 0, license_plate |-> <<>>,
          license_plate_state |-> "", status |-> "active"]
FixtureTransactions ==
    (1 :> [customer_id |-> 1, vehicle_id |-> 1, transaction_amount |-> Dec(15000, -2)])
    @@ (2 :> [customer_id |-> 1, vehicle_id |-> 1, transaction_amount |-> Dec(25000, -2)])

Init ==
    /\ customers = FixtureCustomers
    /\ nextCustomerId = 1
    /\ vehicles = FixtureVehicles
    /\ nextVehicleId = 1
    /\ transactions = FixtureTransactions
    /\ nextTransactionId = 2
    /\ payments = <<>>
    /\ nextPaymentId = 0
    /\ obj = None
    /\ lastOp = NoOp
    /\ addresses = <<>>
    /\ nextAddressId = 0
    /\ procs = <<>>
    /\ dispatcher = NoHandlers
    /\ received = <<>>
    /\ heimCustomers = <<>>
    /\ now = 0

\* the payment handlers, with at most maxIds payment ids ever generated
PaymentNext(maxIds, createCommands, updateCommands) ==
    \/ /\ nextPaymentId < maxIds
       /\ \E command \in createCommands : handle_create(command)
    \/ \E command \in updateCommands : handle_update(command)
    \/ \E payment_id \in 1..maxIds : handle_delete(payment_id)
    \/ \E payment_id \in 1..maxIds : handle_complete(payment_id)
    \/ \E payment_id \in 1..maxIds : handle_refund(payment_id)
    \/ \E payment_id \in 1..maxIds : handle_cancel(payment_id)

\* Spec: the lifecycle of up to MaxPayments payments over two transactions;
\* commands vary the transaction, the method and the target payment.
LifecycleCreates ==
    CreatePaymentCommand(TransactionIdInputs, {"CASH", "BITCOIN"},
                         {Dec(15000, -2)}, {Ref("", 0)}, {""})
LifecycleUpdates ==
    UpdatePaymentCommand(1..MaxPayments, {"CASH", "CARD"}, {}, {}, {})

Next == PaymentNext(MaxPayments, LifecycleCreates, LifecycleUpdates)

Spec == Init /\ [][Next]_vars

\* FieldSpec: the fields of up to MaxFieldPayments payments over one stored
\* transaction.  A create stores the default method, amount and reference or
\* is rejected by full_clean for a bad method, amount or reference; an update
\* sets any subset of the four fields to a second value, or to an amount that
\* full_clean rejects.
FieldCreates ==
    CreatePaymentCommand({1, 3}, {"CASH", "BITCOIN"},
                         {Dec(15000, -2), Dec(1005, -3)},
                         {Ref("", 0), Ref("X..65", 65)}, {""})
FieldUpdates ==
    UpdatePaymentCommand(1..MaxFieldPayments, {"CARD"},
                         {Dec(25000, -2), Dec(1005, -3)},
                         {Ref("REF-67890", 9)}, {"Exact change provided"})

FieldNext == PaymentNext(MaxFieldPayments, FieldCreates, FieldUpdates)

FieldSpec == Init /\ [][FieldNext]_vars

\* ------------------------------------------- aggregate-level specification
\* AggSpec: a Payment instance in any status, as the model tests build it
\* with Payment.objects.create(status=...), on which complete(), refund() and
\* cancel() are called directly.
AggPayments ==
    {NewPayment(1, 1, m, a, st, Ref("", 0), "") :
        m \in PAYMENT_METHODS, a \in {Dec(15000, -2), Dec(30000, -2)},
        st \in PAYMENT_STATUSES}

AggInit ==
    /\ customers = FixtureCustomers
    /\ nextCustomerId = 1
    /\ vehicles = FixtureVehicles
    /\ nextVehicleId = 1
    /\ transactions = FixtureTransactions
    /\ nextTransactionId = 2
    /\ payments = <<>>
    /\ nextPaymentId = 0
    /\ obj \in AggPayments
    /\ lastOp = NoOp
    /\ addresses = <<>>
    /\ nextAddressId = 0
    /\ procs = <<>>
    /\ dispatcher = NoHandlers
    /\ received = <<>>
    /\ heimCustomers = <<>>
    /\ now = 0

\* one direct call of a mutation method on the instance
Call(name, r) ==
    /\ obj' = r.payment
    /\ lastOp' = Op(name, obj.payment_id, IF r.raised THEN "ValueError" ELSE "ok",
                    0, NoCmd)
    /\ UNCHANGED <<refVars, payments, nextPaymentId>>

CallComplete == Call("Payment.complete", PaymentComplete(obj))
CallRefund == Call("Payment.refund", PaymentRefund(obj))
CallCancel == Call("Payment.cancel", PaymentCancel(obj))

AggNext == CallComplete \/ CallRefund \/ CallCancel

AggSpec == AggInit /\ [][AggNext]_vars

\* ------------------------------------------------------------ characters
Lower == <<"a","b","c","d","e","f","g","h","i","j","k","l","m",
           "n","o","p","q","r","s","t","u","v","w","x","y","z">>
Upper == <<"A","B","C","D","E","F","G","H","I","J","K","L","M",
           "N","O","P","Q","R","S","T","U","V","W","X","Y","Z">>
Range(f) == {f[i] : i \in DOMAIN f}
Letters == Range(Lower) \cup Range(Upper)
Digits == {"0","1","2","3","4","5","6","7","8","9"}
Whitespace == {" ", "\t"}

\* str.upper() on one character
UpperChar(c) ==
    IF c \in Range(Lower) THEN Upper[CHOOSE i \in DOMAIN Lower : Lower[i] = c] ELSE c

\* str.upper()
ToUpper(str) == [i \in DOMAIN str |-> UpperChar(str[i])]

\* the string without the characters of the set drop (str.replace(c, ""))
RECURSIVE Strip(_, _)
Strip(str, drop) ==
    IF str = <<>> THEN <<>>
    ELSE IF Head(str) \in drop THEN Strip(Tail(str), drop)
    ELSE <<Head(str)>> \o Strip(Tail(str), drop)

\* ------------------------------------------------- customer value objects
\* PersonName.__post_init__: both parts non-empty after strip()
IsBlank(str) == \A i \in DOMAIN str : str[i] \in Whitespace
PersonNameValid(given_names, surnames) == ~IsBlank(given_names) /\ ~IsBlank(surnames)

\* Email._is_valid: ^[a-zA-Z0-9._%+-]+@[a-zA-Z0-9.-]+\.[a-zA-Z]{2,}$
EmailLocalChars == Letters \cup Digits \cup {".", "_", "%", "+", "-"}
EmailDomainChars == Letters \cup Digits \cup {".", "-"}
EmailIsValid(e) ==
    \E at \in 2..Len(e) : \E dot \in (at + 2)..(Len(e) - 2) :
        /\ e[at] = "@"
        /\ \A k \in 1..(at - 1) : e[k] \in EmailLocalChars
        /\ \A k \in (at + 1)..(dot - 1) : e[k] \in EmailDomainChars
        /\ e[dot] = "."
        /\ \A k \in (dot + 1)..Len(e) : e[k] \in Letters

\* PhoneNumber._normalize: re.sub(r"[^\d+]", "", phone)
RECURSIVE PhoneNormalize(_)
PhoneNormalize(phone) ==
    IF phone = <<>> THEN <<>>
    ELSE IF Head(phone) \in Digits \cup {"+"}
    THEN <<Head(phone)>> \o PhoneNormalize(Tail(phone))
    ELSE PhoneNormalize(Tail(phone))

\* ---------------------------------------------------- vehicle value object
\* variant: hyphens are kept
VinNormalizeKeepHyphens(vin) == Strip(ToUpper(vin), {" "})

\* VIN._normalize
VinNormalize(vin) == Strip(Strip(ToUpper(vin), {" "}), {"-"})

\* VIN._is_valid: 17 characters of [A-HJ-NPR-Z0-9]
VinLength == 17
VinChars == (Range(Upper) \ {"I", "O", "Q"}) \cup Digits
\* variant: every upper-case letter is accepted
VinIsValidAnyLetter(vin) ==
    Len(vin) = VinLength /\ \A i \in DOMAIN vin : vin[i] \in Range(Upper) \cup Digits

VinIsValid(vin) == Len(vin) = VinLength /\ \A i \in DOMAIN vin : vin[i] \in VinChars

\* --------------------------------------------- value object construction
\* the tables and counters, which no value object touches
tableVars == <<customers, nextCustomerId, vehicles, nextVehicleId, transactions,
               nextTransactionId, payments, nextPaymentId, addresses,
               nextAddressId, procs,
               dispatcher, received, heimCustomers, now>>

\* VIN(value=value): __post_init__ normalizes, validates and stores the
\* normalized value; a ValueError leaves no instance
VinConstruct(value) ==
    LET normalized == VinNormalize(value)
    IN  /\ IF ~VinIsValid(normalized)
           THEN /\ lastOp' = Op("VIN", 0, "ValueError", 0, [value |-> value])
                /\ obj' = None
           ELSE /\ lastOp' = Op("VIN", 0, "ok", 0, [value |-> value])
                /\ obj' = [class |-> "VIN", value |-> normalized]
        /\ UNCHANGED tableVars

\* PhoneNumber(value=value): __post_init__ stores the normalized value and
\* never raises
PhoneNumberConstruct(value) ==
    /\ lastOp' = Op("PhoneNumber", 0, "ok", 0, [value |-> value])
    /\ obj' = [class |-> "PhoneNumber", value |-> PhoneNormalize(value)]
    /\ UNCHANGED tableVars

\* ------------------------------------------------ heim_customers.Customer
\* everything but the heim_customers table, the clock and lastOp
heimFrame == <<customers, nextCustomerId, vehicles, nextVehicleId, transactions,
               nextTransactionId, payments, nextPaymentId, obj, addresses,
               nextAddressId, procs, dispatcher, received>>

\* the instant the clock starts at: 31 December 2025 (day 365), 23:59:58
EpochYear == 2025
EpochDay == 365
EpochSecondOfDay == 86398
DaysInYear == 365

\* datetime.now() as [year, day, hour, minute, second] for the clock value t
DateTime(t) ==
    LET total == EpochSecondOfDay + (t \div 2)
        days == (EpochDay - 1) + (total \div 86400)
    IN  [year |-> EpochYear + (days \div DaysInYear),
         day |-> (days % DaysInYear) + 1,
         hour |-> (total \div 3600) % 24,
         minute |-> (total \div 60) % 60,
         second |-> total % 60]

\* generate_customer_id at clock value t: "C" %H %M %S(3 digits) "-" %y %j,
\* each field zero-padded to a fixed width, kept here as the field values
generate_customer_id(t) ==
    LET d == DateTime(t)
    IN  <<"C", d.hour, d.minute, d.second, "-", d.year % 100, d.day>>

\* heim_customers Customer.save() of a new instance (customer_id unset, no
\* created_at): the id is generated, Model.save() finds the primary key set
\* and tries UPDATE ... WHERE customer_id = id first, which sets created_at
\* to NULL on a stored row and is refused, and INSERTs when no row matched;
\* email is unique
HeimCustomerSaveNew(fields) ==
    LET customer_id == generate_customer_id(now)
    IN  /\ IF \/ customer_id \in DOMAIN heimCustomers
              \/ \E c \in DOMAIN heimCustomers : heimCustomers[c].email = fields.email
           THEN /\ lastOp' = Op("heim.save", None, "IntegrityError", None, fields)
                /\ UNCHANGED heimCustomers
           ELSE /\ lastOp' = Op("heim.save", None, "ok", Some(customer_id), fields)
                /\ heimCustomers' = (customer_id :> fields) @@ heimCustomers
        /\ UNCHANGED now
        /\ UNCHANGED heimFrame

\* Customer.save() of the stored customer customer_id after assigning fields:
\* the id is set, so it is kept and the row is updated
HeimCustomerSave(customer_id, fields) ==
    /\ customer_id \in DOMAIN heimCustomers
    /\ IF \E c \in DOMAIN heimCustomers \ {customer_id} :
             heimCustomers[c].email = fields.email
       THEN /\ lastOp' = Op("heim.save", Some(customer_id), "IntegrityError", None, fields)
            /\ UNCHANGED heimCustomers
       ELSE /\ lastOp' = Op("heim.save", Some(customer_id), "ok", Some(customer_id), fields)
            /\ heimCustomers' = [heimCustomers EXCEPT ![customer_id] = fields]
    /\ UNCHANGED now
    /\ UNCHANGED heimFrame

\* half a second passes
Tick ==
    /\ now' = now + 1
    /\ UNCHANGED <<heimCustomers, lastOp>>
    /\ UNCHANGED heimFrame

\* -------------------------------------------------------- event dispatcher
\* everything but the dispatcher, the calls it made and lastOp
busFrame == <<customers, nextCustomerId, vehicles, nextVehicleId, transactions,
              nextTransactionId, payments, nextPaymentId, obj, addresses,
              nextAddressId, procs, heimCustomers, now>>

\* list.remove(x): the list without the first occurrence of x
RECURSIVE RemoveFirst(_, _)
RemoveFirst(list, x) ==
    IF list = <<>> THEN <<>>
    ELSE IF Head(list) = x THEN Tail(list)
    ELSE <<Head(list)>> \o RemoveFirst(Tail(list), x)

\* variant: the handler is put in front of the list
SubscribeFirst(handlers, event_type, handler) ==
    [handlers EXCEPT ![event_type] = <<handler>> \o @]

\* EventDispatcher.subscribe on the dict handlers
SubscribeIn(handlers, event_type, handler) ==
    [handlers EXCEPT ![event_type] = Append(@, handler)]

\* EventDispatcher.unsubscribe on the dict handlers
UnsubscribeIn(handlers, event_type, handler) ==
    IF handler \in Range(handlers[event_type])
    THEN [handlers EXCEPT ![event_type] = RemoveFirst(@, handler)]
    ELSE handlers

\* the callables subscribed in the tests and what each does with the
\* dispatcher when it is called with an event: h1 and h2 only record the
\* event, raiser raises, once unsubscribes itself, drop_h1 unsubscribes h1
\* and add_h2 subscribes h2
Recorders == {"h1", "h2"}
PlainHandlers == Recorders \cup {"raiser"}
ReentrantHandlers == {"h1", "once", "drop_h1", "add_h2"}
HandlerCall(handler, handlers, event_type) ==
    IF handler = "once" THEN UnsubscribeIn(handlers, event_type, "once")
    ELSE IF handler = "drop_h1" THEN UnsubscribeIn(handlers, event_type, "h1")
    ELSE IF handler = "add_h2" THEN SubscribeIn(handlers, event_type, "h2")
    ELSE handlers

\* the loop of EventDispatcher.publish from position i of the list
\* handlers[event_type], which the handlers called may change under it; calls
\* are the handler calls made so far
RECURSIVE Dispatch(_, _, _, _)
Dispatch(handlers, event_type, i, calls) ==
    IF i > Len(handlers[event_type])
    THEN [handlers |-> handlers, calls |-> calls, result |-> "ok"]
    ELSE LET handler == handlers[event_type][i]
             called == Append(calls, [handler |-> handler, event |-> event_type])
         IN  IF handler = "raiser"
             THEN [handlers |-> handlers, calls |-> called, result |-> "HandlerError"]
             ELSE Dispatch(HandlerCall(handler, handlers, event_type),
                           event_type, i + 1, called)

\* EventDispatcher.subscribe
Subscribe(event_type, handler) ==
    /\ dispatcher' = SubscribeIn(dispatcher, event_type, handler)
    /\ lastOp' = Op("subscribe", 0, "ok", 0,
                    [event_type |-> event_type, handler |-> handler])
    /\ UNCHANGED received
    /\ UNCHANGED busFrame

\* EventDispatcher.unsubscribe
Unsubscribe(event_type, handler) ==
    /\ dispatcher' = UnsubscribeIn(dispatcher, event_type, handler)
    /\ lastOp' = Op("unsubscribe", 0, "ok", 0,
                    [event_type |-> event_type, handler |-> handler])
    /\ UNCHANGED received
    /\ UNCHANGED busFrame

\* EventDispatcher.publish of an event of type event_type
Publish(event_type) ==
    LET done == Dispatch(dispatcher, event_type, 1, <<>>)
    IN  /\ dispatcher' = done.handlers
        /\ received' = done.calls
        /\ lastOp' = Op("publish", 0, done.result, 0, [event_type |-> event_type])
        /\ UNCHANGED busFrame

\* EventDispatcher.clear
Clear ==
    /\ dispatcher' = NoHandlers
    /\ lastOp' = Op("clear", 0, "ok", 0, NoCmd)
    /\ UNCHANGED received
    /\ UNCHANGED busFrame

\* ------------------------------------------------------------ on_delete
\* Transaction.customer: on_delete=PROTECT
CustomerProtected(customer_id) ==
    \E t \in DOMAIN transactions : transactions[t].customer_id = customer_id

\* Transaction.vehicle: on_delete=PROTECT
VehicleProtected(vehicle_id) ==
    \E t \in DOMAIN transactions : transactions[t].vehicle_id = vehicle_id

\* variant: the foreign key does not protect the transaction
TransactionUnprotected(transaction_id) == FALSE

\* Payment.transaction: on_delete=PROTECT
TransactionProtected(transaction_id) ==
    \E p \in DOMAIN payments : payments[p].transaction_id = transaction_id

\* MotorVehicle.owner: on_delete=SET_NULL
OwnerSetNull(table, customer_id) ==
    [v \in DOMAIN table |->
        IF table[v].owner_id = Some(customer_id)
        THEN [table[v] EXCEPT !.owner_id = None] ELSE table[v]]

\* a call that raises before it writes anything, in the referential actions
RefRaise(op, id, exc) ==
    /\ lastOp' = Op(op, id, exc, 0, NoCmd)
    /\ UNCHANGED <<refVars, payments, nextPaymentId, obj>>

\* --------------------------------------------------------------- customers
CustomerNameMaxLength == 32
CustomerPhoneMaxLength == 16

\* variant: the call publishes an event before it raises
FailAfterPublish(op, id, exc, cmd) ==
    /\ lastOp' = OpEv(op, id, exc, 0, cmd, <<[type |-> "CustomerUpdated",
                                              customer_id |-> id, changes |-> <<>>]>>)
    /\ UNCHANGED <<refVars, payments, nextPaymentId, obj>>

\* a call that raises before it writes anything; the command is recorded
Fail(op, id, exc, cmd) ==
    /\ lastOp' = Op(op, id, exc, 0, cmd)
    /\ UNCHANGED <<refVars, payments, nextPaymentId, obj>>

\* CustomerRepository.get_by_id
CustomerGetById(customer_id) ==
    IF customer_id \in DOMAIN customers THEN Some(customers[customer_id]) ELSE None

\* variant: the filter compares the email with another column
CustomerGetByEmailMissing(email) ==
    {c \in DOMAIN customers : customers[c].given_names = email}

\* CustomerRepository.get_by_email
CustomerGetByEmail(email) == {c \in DOMAIN customers : customers[c].email = email}

\* Customer.full_clean() of a new row: max_length of the CharFields and the
\* unique email (the inputs stay within what EmailField accepts)
CustomerFullClean(row) ==
    /\ Len(row.given_names) <= CustomerNameMaxLength
    /\ Len(row.surnames) <= CustomerNameMaxLength
    /\ Len(row.phone) <= CustomerPhoneMaxLength
    /\ CustomerGetByEmail(row.email) = {}

\* Customer.full_clean() of the stored row customer_id: validate_unique
\* leaves the row itself out of the email lookup
CustomerFullCleanExisting(customer_id, row) ==
    /\ Len(row.given_names) <= CustomerNameMaxLength
    /\ Len(row.surnames) <= CustomerNameMaxLength
    /\ Len(row.phone) <= CustomerPhoneMaxLength
    /\ CustomerGetByEmail(row.email) \subseteq {customer_id}

\* the domain events of the customer context (event_id and occurred_at are
\* not modelled)
CustomerCreated(customer_id, row) ==
    [type |-> "CustomerCreated", customer_id |-> customer_id, email |-> row.email,
     given_names |-> row.given_names, surnames |-> row.surnames]
CustomerUpdated(customer_id, changes) ==
    [type |-> "CustomerUpdated", customer_id |-> customer_id, changes |-> changes]
CustomerEmailChanged(customer_id, old_email, new_email) ==
    [type |-> "CustomerEmailChanged", customer_id |-> customer_id,
     old_email |-> old_email, new_email |-> new_email]
CustomerDeleted(customer_id, email) ==
    [type |-> "CustomerDeleted", customer_id |-> customer_id, email |-> email]
CustomerAddressAdded(customer_id, address_id, address_type, is_primary) ==
    [type |-> "CustomerAddressAdded", customer_id |-> customer_id,
     address_id |-> address_id, address_type |-> address_type,
     is_primary |-> is_primary]
CustomerAddressRemoved(customer_id, address_id) ==
    [type |-> "CustomerAddressRemoved", customer_id |-> customer_id,
     address_id |-> address_id]

\* PhoneNumber(value=phone).value if phone else ""
PhoneValue(phone) == IF phone # <<>> THEN PhoneNormalize(phone) ELSE <<>>

\* CustomerCommandHandler.handle_create
CustomerHandleCreate(command) ==
    LET row == [given_names |-> command.given_names, surnames |-> command.surnames,
                email |-> command.email, phone |-> PhoneValue(command.phone)]
        cid == nextCustomerId + 1
    IN  IF ~PersonNameValid(command.given_names, command.surnames)
        THEN Fail("customer.create", 0, "ValueError", command)
        ELSE IF ~EmailIsValid(command.email)
        THEN Fail("customer.create", 0, "ValueError", command)
        ELSE IF CustomerGetByEmail(command.email) # {}
        THEN Fail("customer.create", 0, "CustomerAlreadyExists", command)
        ELSE IF ~CustomerFullClean(row)
        THEN Fail("customer.create", 0, "ValidationError", command)
        ELSE /\ customers' = (cid :> row) @@ customers
             /\ nextCustomerId' = cid
             /\ lastOp' = OpEv("customer.create", 0, "ok", cid, command,
                               <<CustomerCreated(cid, row)>>)
             /\ UNCHANGED <<vehicles, nextVehicleId, transactions,
                            nextTransactionId, payments, nextPaymentId, obj,
                            addresses, nextAddressId, procs,
                            dispatcher, received, heimCustomers, now>>

\* `command.field or customer.field`: None and the empty string are both
\* falsy, so either one yields the stored value
OrStored(field, stored) == IF field = None \/ field[1] = <<>> THEN stored ELSE field[1]

\* the changes list handle_update builds: one pair per field that is not None,
\* carrying the command's name values and the normalised phone
UpdateChanges(command) ==
    (IF command.given_names # None
     THEN <<<<"given_names", command.given_names[1]>>>> ELSE <<>>)
    \o (IF command.surnames # None
        THEN <<<<"surnames", command.surnames[1]>>>> ELSE <<>>)
    \o (IF command.phone # None
        THEN <<<<"phone", PhoneValue(command.phone[1])>>>> ELSE <<>>)

\* CustomerCommandHandler.handle_update
CustomerHandleUpdate(command) ==
    LET found == CustomerGetById(command.customer_id)
        id == command.customer_id
    IN  IF found = None
        THEN Fail("customer.update", id, "CustomerNotFound", command)
        ELSE
        LET customer == found[1]
            named == command.given_names # None \/ command.surnames # None
            given_names == IF named THEN OrStored(command.given_names, customer.given_names)
                           ELSE customer.given_names
            surnames == IF named THEN OrStored(command.surnames, customer.surnames)
                        ELSE customer.surnames
            phone == IF command.phone # None THEN PhoneValue(command.phone[1])
                     ELSE customer.phone
            row == [customer EXCEPT !.given_names = given_names,
                                    !.surnames = surnames, !.phone = phone]
            changes == UpdateChanges(command)
        IN  IF named /\ ~PersonNameValid(given_names, surnames)
            THEN Fail("customer.update", id, "ValueError", command)
            ELSE IF ~CustomerFullCleanExisting(id, row)
            THEN Fail("customer.update", id, "ValidationError", command)
            ELSE /\ customers' = [customers EXCEPT ![id] = row]
                 /\ lastOp' = OpEv("customer.update", id, "ok", id, command,
                                   IF changes # <<>>
                                   THEN <<CustomerUpdated(id, changes)>> ELSE <<>>)
                 /\ UNCHANGED <<nextCustomerId, vehicles, nextVehicleId, transactions,
                                nextTransactionId, payments, nextPaymentId, obj,
                                addresses, nextAddressId, procs,
                                dispatcher, received, heimCustomers, now>>

\* CustomerCommandHandler.handle_update_email
CustomerHandleUpdateEmail(command) ==
    LET found == CustomerGetById(command.customer_id)
        id == command.customer_id
    IN  IF found = None
        THEN Fail("customer.update_email", id, "CustomerNotFound", command)
        ELSE IF ~EmailIsValid(command.email)
        THEN Fail("customer.update_email", id, "ValueError", command)
        ELSE IF found[1].email = command.email
        THEN /\ lastOp' = Op("customer.update_email", id, "ok", id, command)
             /\ UNCHANGED <<refVars, payments, nextPaymentId, obj>>
        ELSE IF CustomerGetByEmail(command.email) # {}
        THEN Fail("customer.update_email", id, "CustomerAlreadyExists", command)
        ELSE
        LET row == [found[1] EXCEPT !.email = command.email] IN
            IF ~CustomerFullCleanExisting(id, row)
            THEN Fail("customer.update_email", id, "ValidationError", command)
            ELSE /\ customers' = [customers EXCEPT ![id] = row]
                 /\ lastOp' = OpEv("customer.update_email", id, "ok", id, command,
                        <<CustomerEmailChanged(id, found[1].email, command.email)>>)
                 /\ UNCHANGED <<nextCustomerId, vehicles, nextVehicleId, transactions,
                                nextTransactionId, payments, nextPaymentId, obj,
                                addresses, nextAddressId, procs,
                                dispatcher, received, heimCustomers, now>>

\* Address.customer: on_delete=CASCADE
AddressCascade(table, customer_id) ==
    [a \in {x \in DOMAIN table : table[x].customer_id # customer_id} |-> table[a]]

\* CustomerCommandHandler.handle_delete: Customer.delete() collects the rows
\* that reference the customer before it removes anything
CustomerHandleDelete(customer_id) ==
    IF customer_id \notin DOMAIN customers
    THEN RefRaise("customer.delete", customer_id, "CustomerNotFound")
    ELSE IF CustomerProtected(customer_id)
    THEN RefRaise("customer.delete", customer_id, "ProtectedError")
    ELSE /\ customers' = Without(customers, customer_id)
         /\ vehicles' = OwnerSetNull(vehicles, customer_id)
         /\ addresses' = AddressCascade(addresses, customer_id)
         /\ lastOp' = OpEv("customer.delete", customer_id, "ok", 0, NoCmd,
                <<CustomerDeleted(customer_id, customers[customer_id].email)>>)
         /\ UNCHANGED <<nextCustomerId, nextVehicleId, transactions,
                        nextTransactionId, payments, nextPaymentId, obj,
                        nextAddressId, procs,
                        dispatcher, received, heimCustomers, now>>

\* --------------------------------------------------------------- addresses
\* self.addresses.filter(is_primary=True)
PrimaryOfCustomer(table, customer_id) ==
    {a \in DOMAIN table : table[a].customer_id = customer_id /\ table[a].is_primary}

\* variant: the update of the old primary addresses is lost
ClearPrimaryLost(table, customer_id) == table

\* self.addresses.filter(is_primary=True).update(is_primary=False)
ClearPrimary(table, customer_id) ==
    [a \in DOMAIN table |->
        IF table[a].customer_id = customer_id /\ table[a].is_primary
        THEN [table[a] EXCEPT !.is_primary = FALSE] ELSE table[a]]

\* Address.objects.create(customer=self, ...) under the next id
AddressInsert(table, address_id, customer_id, address_type, is_primary) ==
    (address_id :> [customer_id |-> customer_id, address_type |-> address_type,
                    is_primary |-> is_primary]) @@ table

\* Customer.add_address: the addresses table afterwards
CustomerAddAddress(table, address_id, customer_id, address_type, is_primary) ==
    AddressInsert(IF is_primary THEN ClearPrimary(table, customer_id) ELSE table,
                  address_id, customer_id, address_type, is_primary)

\* variant: the delete is not scoped to the customer's own addresses
CustomerRemoveAddressUnscoped(table, customer_id, address_id) ==
    [removed |-> address_id \in DOMAIN table,
     table |-> [a \in DOMAIN table \ {address_id} |-> table[a]]]

\* Customer.remove_address: [removed, table afterwards]
CustomerRemoveAddress(table, customer_id, address_id) ==
    LET hit == {a \in DOMAIN table :
                    a = address_id /\ table[a].customer_id = customer_id}
    IN  [removed |-> Cardinality(hit) > 0,
         table |-> [a \in DOMAIN table \ hit |-> table[a]]]

\* CustomerCommandHandler.handle_add_address
CustomerHandleAddAddress(command) ==
    LET id == command.customer_id
        aid == nextAddressId + 1
    IN  IF CustomerGetById(id) = None
        THEN Fail("customer.add_address", id, "CustomerNotFound", command)
        ELSE /\ addresses' = CustomerAddAddress(addresses, aid, id,
                                command.address_type, command.is_primary)
             /\ nextAddressId' = aid
             /\ lastOp' = OpEv("customer.add_address", id, "ok", aid, command,
                    <<CustomerAddressAdded(id, aid, command.address_type,
                                           command.is_primary)>>)
             /\ UNCHANGED <<customers, nextCustomerId, vehicles, nextVehicleId,
                            transactions, nextTransactionId, payments,
                            nextPaymentId, obj, procs,
                            dispatcher, received, heimCustomers, now>>

\* CustomerCommandHandler.handle_remove_address; ret is the returned bool
CustomerHandleRemoveAddress(command) ==
    LET id == command.customer_id IN
    IF CustomerGetById(id) = None
    THEN Fail("customer.remove_address", id, "CustomerNotFound", command)
    ELSE LET r == CustomerRemoveAddress(addresses, id, command.address_id) IN
         /\ addresses' = r.table
         /\ lastOp' = OpEv("customer.remove_address", id, "ok", r.removed, command,
                IF r.removed
                THEN <<CustomerAddressRemoved(id, command.address_id)>> ELSE <<>>)
         /\ UNCHANGED <<customers, nextCustomerId, vehicles, nextVehicleId,
                        transactions, nextTransactionId, payments,
                        nextPaymentId, obj, nextAddressId, procs,
                        dispatcher, received, heimCustomers, now>>

\* ---------------------------------------------------------------- vehicles
\* MotorVehicleRepository.get_by_id
VehicleGetById(vehicle_id) ==
    IF vehicle_id \in DOMAIN vehicles THEN Some(vehicles[vehicle_id]) ELSE None

\* MotorVehicleRepository.get_by_vin
VehicleGetByVin(vin) == {v \in DOMAIN vehicles : vehicles[v].vin = ToUpper(vin)}

\* license_plate = CharField(max_length=16); a vehicle is created active
LicensePlateMaxLength == 16
VehicleDefaultStatus == "active"

\* MotorVehicle.full_clean() of a new row: vin max_length and uniqueness, the
\* license_plate max_length and the owner foreign key
VehicleFullClean(row) ==
    /\ Len(row.vin) <= VinLength
    /\ Len(row.license_plate) <= LicensePlateMaxLength
    /\ \A v \in DOMAIN vehicles : vehicles[v].vin # row.vin
    /\ row.owner_id # None => row.owner_id[1] \in DOMAIN customers

\* MotorVehicle.full_clean() of the stored row vehicle_id
VehicleFullCleanExisting(vehicle_id, row) ==
    /\ Len(row.vin) <= VinLength
    /\ Len(row.license_plate) <= LicensePlateMaxLength
    /\ \A v \in DOMAIN vehicles \ {vehicle_id} : vehicles[v].vin # row.vin
    /\ row.owner_id # None => row.owner_id[1] \in DOMAIN customers

\* the domain events of the vehicle context (make, model and year are not
\* modelled)
MotorVehicleCreated(vehicle_id, row) ==
    [type |-> "MotorVehicleCreated", vehicle_id |-> vehicle_id, vin |-> row.vin]
MotorVehicleMileageUpdated(vehicle_id, old_mileage_km, new_mileage_km) ==
    [type |-> "MotorVehicleMileageUpdated", vehicle_id |-> vehicle_id,
     old_mileage_km |-> old_mileage_km, new_mileage_km |-> new_mileage_km]
MotorVehicleOwnerChanged(vehicle_id, old_owner_id, new_owner_id) ==
    [type |-> "MotorVehicleOwnerChanged", vehicle_id |-> vehicle_id,
     old_owner_id |-> old_owner_id, new_owner_id |-> new_owner_id]
MotorVehicleDeleted(vehicle_id, vin) ==
    [type |-> "MotorVehicleDeleted", vehicle_id |-> vehicle_id, vin |-> vin]
MotorVehicleUpdated(vehicle_id, changes) ==
    [type |-> "MotorVehicleUpdated", vehicle_id |-> vehicle_id, changes |-> changes]
MotorVehicleStatusChanged(vehicle_id, old_status, new_status) ==
    [type |-> "MotorVehicleStatusChanged", vehicle_id |-> vehicle_id,
     old_status |-> old_status, new_status |-> new_status]

\* MotorVehicleCommandHandler.handle_create down to
\* MotorVehicleRepository.create, for the vin, owner_id and mileage_km columns
VehicleHandleCreate(command) ==
    LET vin == VinNormalize(command.vin)
        row == [vin |-> ToUpper(vin), owner_id |-> command.owner_id,
                mileage_km |-> command.mileage_km,
                license_plate |-> ToUpper(command.license_plate),
                license_plate_state |-> command.license_plate_state,
                status |-> VehicleDefaultStatus]
        vid == nextVehicleId + 1
    IN  IF ~VinIsValid(vin)
        THEN Fail("vehicle.create", 0, "ValueError", command)
        ELSE IF VehicleGetByVin(vin) # {}
        THEN Fail("vehicle.create", 0, "MotorVehicleAlreadyExists", command)
        ELSE IF ~VehicleFullClean(row)
        THEN Fail("vehicle.create", 0, "ValidationError", command)
        ELSE /\ vehicles' = (vid :> row) @@ vehicles
             /\ nextVehicleId' = vid
             /\ lastOp' = OpEv("vehicle.create", 0, "ok", vid, command,
                               <<MotorVehicleCreated(vid, row)>>)
             /\ UNCHANGED <<customers, nextCustomerId, transactions,
                            nextTransactionId, payments, nextPaymentId, obj,
                            addresses, nextAddressId, procs,
                            dispatcher, received, heimCustomers, now>>

\* variant: the guard also rejects the stored value itself
MileageRejectedUnlessGreater(new_mileage_km, old_mileage) == new_mileage_km <= old_mileage

\* the guard of handle_update_mileage
MileageRejected(new_mileage_km, old_mileage) == new_mileage_km < old_mileage

\* MotorVehicleCommandHandler.handle_update_mileage
VehicleHandleUpdateMileage(command) ==
    LET found == VehicleGetById(command.vehicle_id)
        id == command.vehicle_id
    IN  IF found = None
        THEN Fail("vehicle.update_mileage", id, "MotorVehicleNotFound", command)
        ELSE
        LET old_mileage == found[1].mileage_km
            row == [found[1] EXCEPT !.mileage_km = command.mileage_km]
        IN  IF MileageRejected(command.mileage_km, old_mileage)
            THEN Fail("vehicle.update_mileage", id, "ValueError", command)
            ELSE IF ~VehicleFullCleanExisting(id, row)
            THEN Fail("vehicle.update_mileage", id, "ValidationError", command)
            ELSE /\ vehicles' = [vehicles EXCEPT ![id] = row]
                 /\ lastOp' = OpEv("vehicle.update_mileage", id, "ok", id, command,
                        <<MotorVehicleMileageUpdated(id, old_mileage, row.mileage_km)>>)
                 /\ UNCHANGED <<customers, nextCustomerId, nextVehicleId, transactions,
                                nextTransactionId, payments, nextPaymentId, obj,
                                addresses, nextAddressId, procs,
                                dispatcher, received, heimCustomers, now>>

\* variant: the event is published after every successful transfer
OwnerChangedAlways(old_owner_id, new_owner_id) == TRUE

\* the condition under which handle_transfer_ownership publishes its event
OwnerChanged(old_owner_id, new_owner_id) == old_owner_id # new_owner_id

\* MotorVehicleCommandHandler.handle_transfer_ownership
VehicleHandleTransferOwnership(command) ==
    LET found == VehicleGetById(command.vehicle_id)
        id == command.vehicle_id
    IN  IF found = None
        THEN Fail("vehicle.transfer_ownership", id, "MotorVehicleNotFound", command)
        ELSE
        LET old_owner_id == found[1].owner_id
            row == [found[1] EXCEPT !.owner_id = command.new_owner_id]
        IN  IF command.new_owner_id # None
               /\ CustomerGetById(command.new_owner_id[1]) = None
            THEN Fail("vehicle.transfer_ownership", id, "ValueError", command)
            ELSE IF ~VehicleFullCleanExisting(id, row)
            THEN Fail("vehicle.transfer_ownership", id, "ValidationError", command)
            ELSE /\ vehicles' = [vehicles EXCEPT ![id] = row]
                 /\ lastOp' = OpEv("vehicle.transfer_ownership", id, "ok", id, command,
                        IF OwnerChanged(old_owner_id, row.owner_id)
                        THEN <<MotorVehicleOwnerChanged(id, old_owner_id, row.owner_id)>>
                        ELSE <<>>)
                 /\ UNCHANGED <<customers, nextCustomerId, nextVehicleId, transactions,
                                nextTransactionId, payments, nextPaymentId, obj,
                                addresses, nextAddressId, procs,
                                dispatcher, received, heimCustomers, now>>

\* the changes list of the vehicle handle_update: one pair per field that
\* is not None, carrying the command's value
VehicleUpdateChanges(command) ==
    (IF command.license_plate # None
     THEN <<<<"license_plate", command.license_plate[1]>>>> ELSE <<>>)
    \o (IF command.license_plate_state # None
        THEN <<<<"license_plate_state", command.license_plate_state[1]>>>> ELSE <<>>)

\* MotorVehicleCommandHandler.handle_update, for the license_plate and
\* license_plate_state columns
VehicleHandleUpdate(command) ==
    LET found == VehicleGetById(command.vehicle_id)
        id == command.vehicle_id
    IN  IF found = None
        THEN Fail("vehicle.update", id, "MotorVehicleNotFound", command)
        ELSE
        LET row == [found[1] EXCEPT
                      !.license_plate = IF command.license_plate # None
                                        THEN ToUpper(command.license_plate[1]) ELSE @,
                      !.license_plate_state = IF command.license_plate_state # None
                                              THEN command.license_plate_state[1] ELSE @]
            changes == VehicleUpdateChanges(command)
        IN  IF ~VehicleFullCleanExisting(id, row)
            THEN Fail("vehicle.update", id, "ValidationError", command)
            ELSE /\ vehicles' = [vehicles EXCEPT ![id] = row]
                 /\ lastOp' = OpEv("vehicle.update", id, "ok", id, command,
                                   IF changes # <<>>
                                   THEN <<MotorVehicleUpdated(id, changes)>> ELSE <<>>)
                 /\ UNCHANGED <<customers, nextCustomerId, nextVehicleId, transactions,
                                nextTransactionId, payments, nextPaymentId, obj,
                                addresses, nextAddressId, procs,
                                dispatcher, received, heimCustomers, now>>

\* the valid_statuses list of handle_change_status
VehicleStatuses == {"active", "sold", "scrapped", "stolen"}

\* MotorVehicleCommandHandler.handle_change_status
VehicleHandleChangeStatus(command) ==
    LET found == VehicleGetById(command.vehicle_id)
        id == command.vehicle_id
    IN  IF found = None
        THEN Fail("vehicle.change_status", id, "MotorVehicleNotFound", command)
        ELSE IF command.status \notin VehicleStatuses
        THEN Fail("vehicle.change_status", id, "ValueError", command)
        ELSE
        LET old_status == found[1].status
            row == [found[1] EXCEPT !.status = command.status]
        IN  IF ~VehicleFullCleanExisting(id, row)
            THEN Fail("vehicle.change_status", id, "ValidationError", command)
            ELSE /\ vehicles' = [vehicles EXCEPT ![id] = row]
                 /\ lastOp' = OpEv("vehicle.change_status", id, "ok", id, command,
                        IF old_status # command.status
                        THEN <<MotorVehicleStatusChanged(id, old_status, row.status)>>
                        ELSE <<>>)
                 /\ UNCHANGED <<customers, nextCustomerId, nextVehicleId, transactions,
                                nextTransactionId, payments, nextPaymentId, obj,
                                addresses, nextAddressId, procs,
                                dispatcher, received, heimCustomers, now>>

\* MotorVehicleCommandHandler.handle_delete
VehicleHandleDelete(vehicle_id) ==
    IF vehicle_id \notin DOMAIN vehicles
    THEN RefRaise("vehicle.delete", vehicle_id, "MotorVehicleNotFound")
    ELSE IF VehicleProtected(vehicle_id)
    THEN RefRaise("vehicle.delete", vehicle_id, "ProtectedError")
    ELSE /\ vehicles' = Without(vehicles, vehicle_id)
         /\ lastOp' = OpEv("vehicle.delete", vehicle_id, "ok", 0, NoCmd,
                <<MotorVehicleDeleted(vehicle_id, vehicles[vehicle_id].vin)>>)
         /\ UNCHANGED <<customers, nextCustomerId, nextVehicleId, transactions,
                        nextTransactionId, payments, nextPaymentId, obj,
                        addresses, nextAddressId, procs,
                        dispatcher, received, heimCustomers, now>>

\* ------------------------------------------------------------ transactions
\* transaction_amount = DecimalField(max_digits=12, decimal_places=2)
TransactionFullClean(row) ==
    /\ row.customer_id \in DOMAIN customers
    /\ row.vehicle_id \in DOMAIN vehicles
    /\ DecimalFieldValid(row.transaction_amount, AmountMaxDigits, AmountDecimalPlaces)

\* TransactionCommandHandler.handle_create (the date is a valid date)
TransactionHandleCreate(command) ==
    LET row == [customer_id |-> command.customer_id, vehicle_id |-> command.vehicle_id,
                transaction_amount |-> command.transaction_amount]
        tid == nextTransactionId + 1
    IN  IF command.customer_id \notin DOMAIN customers
        THEN RefRaise("transaction.create", 0, "ValueError: customer not found")
        ELSE IF command.vehicle_id \notin DOMAIN vehicles
        THEN RefRaise("transaction.create", 0, "ValueError: vehicle not found")
        ELSE IF ~TransactionFullClean(row)
        THEN RefRaise("transaction.create", 0, "ValidationError")
        ELSE /\ transactions' = (tid :> row) @@ transactions
             /\ nextTransactionId' = tid
             /\ lastOp' = Op("transaction.create", 0, "ok", tid, NoCmd)
             /\ UNCHANGED <<customers, nextCustomerId, vehicles, nextVehicleId,
                            payments, nextPaymentId, obj,
                            addresses, nextAddressId, procs,
                            dispatcher, received, heimCustomers, now>>

\* TransactionCommandHandler.handle_delete
TransactionHandleDelete(transaction_id) ==
    IF transaction_id \notin DOMAIN transactions
    THEN RefRaise("transaction.delete", transaction_id, "TransactionNotFound")
    ELSE IF TransactionProtected(transaction_id)
    THEN RefRaise("transaction.delete", transaction_id, "ProtectedError")
    ELSE /\ transactions' = Without(transactions, transaction_id)
         /\ lastOp' = Op("transaction.delete", transaction_id, "ok", 0, NoCmd)
         /\ UNCHANGED <<customers, nextCustomerId, vehicles, nextVehicleId,
                        nextTransactionId, payments, nextPaymentId, obj,
                            addresses, nextAddressId, procs,
                        dispatcher, received, heimCustomers, now>>

\* ----------------------------------------------- referential specification
\* RefSpec: all four tables start empty; customers, vehicles, transactions and
\* payments are created and deleted through their handlers.
RefCustomerCreates ==
    [given_names : {<<"J", "o">>, <<" ">>}, surnames : {<<"D", "o", "e">>},
     email : {<<"j", "@", "e", ".", "c", "o">>, <<"j", "@", "e">>},
     phone : {<<>>, <<"+", "1", " ", "5">>}]

Vin1 == <<"1","H","G","C","M","8","2","6","3","3","A","0","0","4","3","5","2">>
\* the same VIN in lower case with a hyphen, and one that contains an O
Vin1Lower == <<"1","h","g","c","m","8","2","6","3","3","a","-","0","0","4","3","5","2">>
VinBad == <<"1","H","G","C","M","8","2","6","3","3","A","0","0","4","3","5","O">>

RefVehicleCreates ==
    [vin : {Vin1, Vin1Lower, VinBad},
     owner_id : Opt(1..(MaxCustomers + 1)), mileage_km : {0},
     license_plate : {<<>>}, license_plate_state : {""}]

RefTransactionCreates ==
    [customer_id : 1..(MaxCustomers + 1), vehicle_id : 1..(MaxVehicles + 1),
     transaction_amount : {Dec(15000, -2)}]

RefPaymentCreates ==
    CreatePaymentCommand(1..(MaxTransactions + 1), {"CASH"}, {Dec(15000, -2)},
                         {Ref("", 0)}, {""})

RefInit ==
    /\ customers = <<>>
    /\ nextCustomerId = 0
    /\ vehicles = <<>>
    /\ nextVehicleId = 0
    /\ transactions = <<>>
    /\ nextTransactionId = 0
    /\ payments = <<>>
    /\ nextPaymentId = 0
    /\ obj = None
    /\ lastOp = NoOp
    /\ addresses = <<>>
    /\ nextAddressId = 0
    /\ procs = <<>>
    /\ dispatcher = NoHandlers
    /\ received = <<>>
    /\ heimCustomers = <<>>
    /\ now = 0

RefNext ==
    \/ /\ nextCustomerId < MaxCustomers
       /\ \E command \in RefCustomerCreates : CustomerHandleCreate(command)
    \/ \E customer_id \in 1..MaxCustomers : CustomerHandleDelete(customer_id)
    \/ /\ nextVehicleId < MaxVehicles
       /\ \E command \in RefVehicleCreates : VehicleHandleCreate(command)
    \/ \E vehicle_id \in 1..MaxVehicles : VehicleHandleDelete(vehicle_id)
    \/ /\ nextTransactionId < MaxTransactions
       /\ \E command \in RefTransactionCreates : TransactionHandleCreate(command)
    \/ \E transaction_id \in 1..MaxTransactions : TransactionHandleDelete(transaction_id)
    \/ /\ nextPaymentId < MaxRefPayments
       /\ \E command \in RefPaymentCreates : handle_create(command)
    \/ \E payment_id \in 1..MaxRefPayments : handle_delete(payment_id)

RefSpec == RefInit /\ [][RefNext]_vars

\* --------------------------------------------------- address specification
\* AddrSpec: customers are created and deleted and their addresses added and
\* removed through the customer command handler, one call after another.
Email1 == <<"j", "@", "e", ".", "c", "o">>
Email2 == <<"k", "@", "e", ".", "c", "o">>

AddrCustomerCreates ==
    [given_names : {<<"J", "o">>}, surnames : {<<"D", "o", "e">>},
     email : {Email1, Email2}, phone : {<<>>}]

AddCustomerAddressCommand(ids) ==
    [customer_id : ids, address_type : {"home"}, is_primary : BOOLEAN]

RemoveCustomerAddressCommand(ids, addressIds) ==
    [customer_id : ids, address_id : addressIds]

AddrNext ==
    \/ /\ nextCustomerId < MaxAddrCustomers
       /\ \E command \in AddrCustomerCreates : CustomerHandleCreate(command)
    \/ \E customer_id \in 1..MaxAddrCustomers : CustomerHandleDelete(customer_id)
    \/ /\ nextAddressId < MaxAddresses
       /\ \E command \in AddCustomerAddressCommand(1..MaxAddrCustomers) :
            CustomerHandleAddAddress(command)
    \/ \E command \in RemoveCustomerAddressCommand(1..MaxAddrCustomers,
                                                   1..(MaxAddresses + 1)) :
            CustomerHandleRemoveAddress(command)

AddrSpec == RefInit /\ [][AddrNext]_vars

\* ------------------------------------------------ concurrent specification
\* ConcSpec: up to MaxRequests requests run the customer handler at the same
\* time against one database.  No handler, repository or model method opens a
\* transaction, so every ORM call is its own autocommitted statement and the
\* requests interleave between statements.  procs[p] holds request p's
\* position (pc), its command, the in-memory Customer it works on (id, row),
\* the old_email local of handle_update_email, the ids whose primary flag its
\* update() cleared, and its outcome.
Request(op, pc, cmd, id, row, result) ==
    [op |-> op, pc |-> pc, cmd |-> cmd, id |-> id, row |-> row,
     old_email |-> <<>>, cleared |-> {}, prechecked |-> FALSE,
     result |-> result, events |-> <<>>]

NoRow == <<>>

At(p, op, pc) == p \in DOMAIN procs /\ procs[p].op = op /\ procs[p].pc = pc

ConcUnchanged ==
    UNCHANGED <<vehicles, nextVehicleId, transactions, nextTransactionId,
                payments, nextPaymentId, obj, lastOp, dispatcher, received,
                heimCustomers, now>>

\* handle_add_address up to the get_by_id lookup
AddAddressStart(p, command) ==
    /\ p \notin DOMAIN procs
    /\ procs' = (p :> (IF CustomerGetById(command.customer_id) = None
                       THEN Request("add_address", "done", command,
                                    command.customer_id, NoRow, "CustomerNotFound")
                       ELSE Request("add_address",
                                    IF command.is_primary THEN "clear" ELSE "insert",
                                    command, command.customer_id, NoRow, "running")))
                @@ procs
    /\ UNCHANGED <<customers, nextCustomerId, addresses, nextAddressId>>
    /\ ConcUnchanged

\* Customer.add_address: the UPDATE statement that clears the primary flags
AddAddressClear(p) ==
    /\ At(p, "add_address", "clear")
    /\ addresses' = ClearPrimary(addresses, procs[p].id)
    /\ procs' = [procs EXCEPT ![p].pc = "insert",
                              ![p].cleared = PrimaryOfCustomer(addresses, procs[p].id)]
    /\ UNCHANGED <<customers, nextCustomerId, nextAddressId>>
    /\ ConcUnchanged

\* Customer.add_address: the INSERT statement, then the event
AddAddressInsert(p) ==
    LET aid == nextAddressId + 1
        cmd == procs[p].cmd
    IN  /\ At(p, "add_address", "insert")
        /\ addresses' = AddressInsert(addresses, aid, procs[p].id,
                                      cmd.address_type, cmd.is_primary)
        /\ nextAddressId' = aid
        /\ procs' = [procs EXCEPT ![p].pc = "done", ![p].result = "ok",
                        ![p].events = <<CustomerAddressAdded(procs[p].id, aid,
                                            cmd.address_type, cmd.is_primary)>>]
        /\ UNCHANGED <<customers, nextCustomerId>>
        /\ ConcUnchanged

\* handle_create up to and including the get_by_email pre-check
CreateStart(p, command) ==
    LET row == [given_names |-> command.given_names, surnames |-> command.surnames,
                email |-> command.email, phone |-> PhoneValue(command.phone)]
        exc == IF ~PersonNameValid(command.given_names, command.surnames)
                  \/ ~EmailIsValid(command.email)
               THEN "ValueError"
               ELSE IF CustomerGetByEmail(command.email) # {}
               THEN "CustomerAlreadyExists" ELSE "none"
    IN  /\ p \notin DOMAIN procs
        /\ procs' = (p :> (IF exc # "none"
                           THEN Request("create", "done", command, 0, row, exc)
                           ELSE [Request("create", "full_clean", command, 0, row,
                                         "running") EXCEPT !.prechecked = TRUE]))
                    @@ procs
        /\ UNCHANGED <<customers, nextCustomerId, addresses, nextAddressId>>
        /\ ConcUnchanged

\* handle_update_email up to and including the get_by_email pre-check
UpdateEmailStart(p, command) ==
    LET found == CustomerGetById(command.customer_id)
        id == command.customer_id
        req(pc, row, result) == Request("update_email", pc, command, id, row, result)
    IN  /\ p \notin DOMAIN procs
        /\ procs' = (p :> (IF found = None
                           THEN req("done", NoRow, "CustomerNotFound")
                           ELSE IF ~EmailIsValid(command.email)
                           THEN req("done", found[1], "ValueError")
                           ELSE IF found[1].email = command.email
                           THEN req("done", found[1], "ok")
                           ELSE IF CustomerGetByEmail(command.email) # {}
                           THEN req("done", found[1], "CustomerAlreadyExists")
                           ELSE [req("full_clean",
                                     [found[1] EXCEPT !.email = command.email],
                                     "running") EXCEPT !.prechecked = TRUE,
                                                       !.old_email = found[1].email]))
                    @@ procs
        /\ UNCHANGED <<customers, nextCustomerId, addresses, nextAddressId>>
        /\ ConcUnchanged

\* CustomerRepository.create / save: customer.full_clean(), whose
\* validate_unique queries the table as it is now
RepositoryFullClean(p) ==
    /\ p \in DOMAIN procs /\ procs[p].pc = "full_clean"
    /\ LET valid == IF procs[p].op = "create"
                    THEN CustomerFullClean(procs[p].row)
                    ELSE CustomerFullCleanExisting(procs[p].id, procs[p].row)
       IN  procs' = IF valid THEN [procs EXCEPT ![p].pc = "save"]
                    ELSE [procs EXCEPT ![p].pc = "done",
                                       ![p].result = "ValidationError"]
    /\ UNCHANGED <<customers, nextCustomerId, addresses, nextAddressId>>
    /\ ConcUnchanged

\* CustomerRepository.create / save: customer.save(); the unique index on
\* email rejects the INSERT or UPDATE with IntegrityError, and an UPDATE of a
\* row deleted meanwhile falls back to an INSERT under the same id
RepositorySave(p) ==
    LET r == procs[p]
        cid == IF r.op = "create" THEN nextCustomerId + 1 ELSE r.id
        event == IF r.op = "create" THEN CustomerCreated(cid, r.row)
                 ELSE CustomerEmailChanged(cid, r.old_email, r.row.email)
    IN  /\ p \in DOMAIN procs /\ procs[p].pc = "save"
        /\ IF CustomerGetByEmail(r.row.email) \ {cid} # {}
           THEN /\ procs' = [procs EXCEPT ![p].pc = "done",
                                          ![p].result = "IntegrityError"]
                /\ UNCHANGED <<customers, nextCustomerId>>
           ELSE /\ customers' = (cid :> r.row) @@ customers
                /\ nextCustomerId' = IF r.op = "create" THEN cid ELSE nextCustomerId
                /\ procs' = [procs EXCEPT ![p].pc = "done", ![p].result = "ok",
                                          ![p].id = cid, ![p].events = <<event>>]
        /\ UNCHANGED <<addresses, nextAddressId>>
        /\ ConcUnchanged

ConcCustomerCreates ==
    [given_names : {<<"J", "a">>}, surnames : {<<"D", "o", "e">>},
     email : {Email1, Email2}, phone : {<<>>}]

UpdateCustomerEmailCommand(ids, emails) == [customer_id : ids, email : emails]

\* one stored customer whose first address is its primary address
ConcInit ==
    /\ customers = FixtureCustomers
    /\ nextCustomerId = 1
    /\ vehicles = <<>>
    /\ nextVehicleId = 0
    /\ transactions = <<>>
    /\ nextTransactionId = 0
    /\ payments = <<>>
    /\ nextPaymentId = 0
    /\ obj = None
    /\ lastOp = NoOp
    /\ addresses = CustomerAddAddress(<<>>, 1, 1, "home", TRUE)
    /\ nextAddressId = 1
    /\ procs = <<>>
    /\ dispatcher = NoHandlers
    /\ received = <<>>
    /\ heimCustomers = <<>>
    /\ now = 0

ConcNext ==
    \E p \in 1..MaxRequests :
        \/ \E command \in AddCustomerAddressCommand({1}) : AddAddressStart(p, command)
        \/ AddAddressClear(p)
        \/ AddAddressInsert(p)
        \/ \E command \in ConcCustomerCreates : CreateStart(p, command)
        \/ \E command \in UpdateCustomerEmailCommand({1}, {Email1, Email2}) :
                UpdateEmailStart(p, command)
        \/ RepositoryFullClean(p)
        \/ RepositorySave(p)

ConcSpec == ConcInit /\ [][ConcNext]_vars

\* -------------------------------------------------- customer specification
\* CustSpec: customers are created, updated, given a new email and deleted
\* through the customer command handler, one call after another.  An update
\* may leave a field out (None), name the empty string, a blank name, the
\* stored value or a new value.
EmailBad == <<"j", "@", "e">>

CustCustomerCreates ==
    [given_names : {<<"J", "o">>, <<" ">>}, surnames : {<<"D", "o", "e">>},
     email : {Email1, Email2, EmailBad}, phone : {<<>>}]

UpdateCustomerCommand(ids, given_names, surnames, phones) ==
    [customer_id : ids, given_names : Opt(given_names), surnames : Opt(surnames),
     phone : Opt(phones)]

CustCustomerUpdates ==
    UpdateCustomerCommand(1..MaxCustCustomers, {<<>>, <<" ">>, <<"J", "o">>, <<"A", "l">>},
                          {<<>>, <<"D", "o", "e">>}, {<<"+", "1", "5">>})

CustNext ==
    \/ /\ nextCustomerId < MaxCustCustomers
       /\ \E command \in CustCustomerCreates : CustomerHandleCreate(command)
    \/ \E command \in CustCustomerUpdates : CustomerHandleUpdate(command)
    \/ \E command \in UpdateCustomerEmailCommand(1..MaxCustCustomers,
                                                 {Email1, Email2, EmailBad}) :
            CustomerHandleUpdateEmail(command)
    \/ \E customer_id \in 1..MaxCustCustomers : CustomerHandleDelete(customer_id)

CustSpec == RefInit /\ [][CustNext]_vars

\* ----------------------------------------------------- event specification
\* EventSpec: the update handlers of the customer and vehicle contexts run on
\* one stored customer and one stored vehicle; every command may repeat the
\* stored value.
UpdateMotorVehicleMileageCommand(ids, mileages) ==
    [vehicle_id : ids, mileage_km : mileages]

EventCustomerUpdates ==
    UpdateCustomerCommand({1}, {<<"J", "o", "h", "n">>, <<"A", "l">>},
                          {<<"D", "o", "e">>}, {<<>>, <<"+", "1", "5">>})

EventInit ==
    /\ customers = FixtureCustomers
    /\ nextCustomerId = 1
    /\ vehicles = FixtureVehicles
    /\ nextVehicleId = 1
    /\ transactions = <<>>
    /\ nextTransactionId = 0
    /\ payments = <<>>
    /\ nextPaymentId = 0
    /\ obj = None
    /\ lastOp = NoOp
    /\ addresses = <<>>
    /\ nextAddressId = 0
    /\ procs = <<>>
    /\ dispatcher = NoHandlers
    /\ received = <<>>
    /\ heimCustomers = <<>>
    /\ now = 0

EventNext ==
    \/ \E command \in EventCustomerUpdates : CustomerHandleUpdate(command)
    \/ \E command \in UpdateCustomerEmailCommand({1}, {Email1, Email2}) :
            CustomerHandleUpdateEmail(command)
    \/ \E command \in UpdateMotorVehicleMileageCommand({1}, 0..MaxMileage) :
            VehicleHandleUpdateMileage(command)

EventSpec == EventInit /\ [][EventNext]_vars

\* --------------------------------------------------- vehicle specification
\* VehSpec: vehicles are registered, their mileage updated, their ownership
\* transferred and they are deleted through the vehicle command handler, while
\* the customers that may own them are created and deleted.
VehCustomerCreates ==
    [given_names : {<<"J", "o">>}, surnames : {<<"D", "o", "e">>},
     email : {Email1, Email2}, phone : {<<>>}]

VehVehicleCreates ==
    [vin : {Vin1, VinBad}, owner_id : Opt(1..MaxVehCustomers),
     mileage_km : 0..(MaxMileage - 1),
     license_plate : {<<>>}, license_plate_state : {""}]

TransferOwnershipCommand(ids, owners) ==
    [vehicle_id : ids, new_owner_id : Opt(owners)]

VehNext ==
    \/ /\ nextCustomerId < MaxVehCustomers
       /\ \E command \in VehCustomerCreates : CustomerHandleCreate(command)
    \/ \E customer_id \in 1..MaxVehCustomers : CustomerHandleDelete(customer_id)
    \/ /\ nextVehicleId < MaxVehVehicles
       /\ \E command \in VehVehicleCreates : VehicleHandleCreate(command)
    \/ \E command \in UpdateMotorVehicleMileageCommand(1..MaxVehVehicles, 0..MaxMileage) :
            VehicleHandleUpdateMileage(command)
    \/ \E command \in TransferOwnershipCommand(1..MaxVehVehicles,
                                               1..(MaxVehCustomers + 1)) :
            VehicleHandleTransferOwnership(command)
    \/ \E vehicle_id \in 1..MaxVehVehicles : VehicleHandleDelete(vehicle_id)

VehSpec == RefInit /\ [][VehNext]_vars

\* ------------------------------------------------------- VIN specification
\* VinSpec: vehicles are registered and deleted through the vehicle command
\* handler, with VINs that differ only by case, hyphens or spaces, a second
\* VIN and a malformed one.
Vin1Spaced == <<"1","H","g","C","M"," ","8","2","6","3","3"," ","a","0","0","4","3","5","2">>
Vin2 == <<"2","T","1","B","R","3","2","E","5","4","C","1","2","3","4","5","6">>

VinVehicleCreates ==
    [vin : {Vin1, Vin1Lower, Vin1Spaced, Vin2, VinBad}, owner_id : {None},
     mileage_km : {0}, license_plate : {<<>>}, license_plate_state : {""}]

VinNext ==
    \/ /\ nextVehicleId < MaxVinVehicles
       /\ \E command \in VinVehicleCreates : VehicleHandleCreate(command)
    \/ \E vehicle_id \in 1..MaxVinVehicles : VehicleHandleDelete(vehicle_id)

VinSpec == RefInit /\ [][VinNext]_vars

\* ---------------------------------------------- value object specification
\* ValueSpec: VIN and PhoneNumber instances are constructed from input
\* strings and from the value of the instance constructed last.
\* all strings over the characters chars of length at most n
Strings(chars, n) == UNION {[1..k -> chars] : k \in 0..n}

\* a valid head of VinLength - MaxSuffixLen + 1 characters followed by up to
\* MaxSuffixLen characters that are valid, lower case, excluded (o) or
\* removed (space, hyphen)
VinInputs ==
    {SubSeq(Vin1, 1, VinLength - MaxSuffixLen + 1) \o str :
        str \in Strings({"3", "a", "o", "-", " "}, MaxSuffixLen)}

PhoneInputs == Strings({"+", "1", " ", "x"}, MaxPhoneLen)

IsInstance(class) == obj # None /\ "class" \in DOMAIN obj /\ obj.class = class

ValueNext ==
    \/ \E value \in VinInputs : VinConstruct(value)
    \/ IsInstance("VIN") /\ VinConstruct(obj.value)
    \/ \E value \in PhoneInputs : PhoneNumberConstruct(value)
    \/ IsInstance("PhoneNumber") /\ PhoneNumberConstruct(obj.value)

ValueSpec == RefInit /\ [][ValueNext]_vars

\* -------------------------------------------------- dispatcher specification
\* DispSpec: handlers that record the event, and one that raises, are
\* subscribed to and unsubscribed from two event types, events of both types
\* are published and the dispatcher is cleared.
DispNext ==
    \/ \E event_type \in EventTypes, handler \in PlainHandlers :
          /\ Len(dispatcher[event_type]) < MaxSubscriptions
          /\ Subscribe(event_type, handler)
    \/ \E event_type \in EventTypes, handler \in PlainHandlers :
          Unsubscribe(event_type, handler)
    \/ \E event_type \in EventTypes : Publish(event_type)
    \/ Clear

DispSpec == RefInit /\ [][DispNext]_vars

\* ReentSpec: the same with handlers that unsubscribe themselves or h1, or
\* subscribe h2, while they are called; only CustomerCreated is used.
ReentNext ==
    \/ \E handler \in ReentrantHandlers :
          /\ Len(dispatcher["CustomerCreated"]) < MaxSubscriptions
          /\ Subscribe("CustomerCreated", handler)
    \/ \E handler \in ReentrantHandlers : Unsubscribe("CustomerCreated", handler)
    \/ /\ Len(dispatcher["CustomerCreated"]) <= MaxSubscriptions
       /\ Publish("CustomerCreated")
    \/ Clear

ReentSpec == RefInit /\ [][ReentNext]_vars

\* ---------------------------------------------- customer id specification
\* HeimSpec: heim_customers customers are saved, new and stored ones, while
\* the clock advances by half seconds across midnight of 31 December.
HeimFields == [email : {Email1, Email2, <<"m", "@", "e", ".", "c", "o">>}]

HeimIds == {generate_customer_id(t) : t \in 0..MaxTicks}

HeimNext ==
    \/ /\ Cardinality(DOMAIN heimCustomers) < MaxHeimCustomers
       /\ \E fields \in HeimFields : HeimCustomerSaveNew(fields)
    \/ \E customer_id \in HeimIds, fields \in HeimFields :
          HeimCustomerSave(customer_id, fields)
    \/ now < MaxTicks /\ Tick

HeimSpec == RefInit /\ [][HeimNext]_vars

\* ------------------------------------- concurrent payments specification
\* PayConcSpec: up to MaxRequests requests run the payment handler at the
\* same time on a PENDING and a COMPLETED payment. A request is the handler
\* up to and including its in-memory changes (one database read), then
\* PaymentRepository.save (full_clean reads only the transactions, which no
\* request changes, and save writes every column of the row).
PayConcPayments ==
    (1 :> NewPayment(1, 1, "CASH", Dec(15000, -2), "PENDING", Ref("", 0), ""))
    @@ (2 :> NewPayment(2, 1, "CASH", Dec(15000, -2), "COMPLETED", Ref("", 0), ""))

PayConcUnchanged ==
    UNCHANGED <<customers, nextCustomerId, vehicles, nextVehicleId, transactions,
                nextTransactionId, nextPaymentId, obj, lastOp, addresses,
                nextAddressId, dispatcher, received, heimCustomers, now>>

\* the guard of the transition handler op and the aggregate method it calls
TransitionAllowed(op, payment) ==
    IF op = "complete" THEN CompleteAllowed(payment)
    ELSE IF op = "refund" THEN RefundAllowed(payment)
    ELSE CancelAllowed(payment)
TransitionCall(op, payment) ==
    IF op = "complete" THEN PaymentComplete(payment)
    ELSE IF op = "refund" THEN PaymentRefund(payment)
    ELSE PaymentCancel(payment)

\* handle_complete, handle_refund or handle_cancel from get_by_id to the call
\* of the aggregate method
TransitionStart(p, op, payment_id) ==
    LET found == PaymentGetById(payment_id)
    IN  /\ p \notin DOMAIN procs
        /\ procs' = (p :>
              (IF found = None
               THEN Request(op, "done", NoCmd, payment_id, NoRow, "PaymentNotFound")
               ELSE IF ~TransitionAllowed(op, found[1])
               THEN Request(op, "done", NoCmd, payment_id, NoRow, "InvalidPaymentState")
               ELSE IF TransitionCall(op, found[1]).raised
               THEN Request(op, "done", NoCmd, payment_id, NoRow, "ValueError")
               ELSE Request(op, "payment.save", NoCmd, payment_id,
                            TransitionCall(op, found[1]).payment, "running")))
              @@ procs
        /\ UNCHANGED payments
        /\ PayConcUnchanged

\* handle_update from get_by_id to the last conditional assignment
UpdateStart(p, command) ==
    LET found == PaymentGetById(command.payment_id)
    IN  /\ p \notin DOMAIN procs
        /\ procs' = (p :>
              (IF found = None
               THEN Request("update", "done", command, command.payment_id, NoRow,
                            "PaymentNotFound")
               ELSE Request("update", "payment.save", command, command.payment_id,
                            ApplyUpdate(found[1], command), "running")))
              @@ procs
        /\ UNCHANGED payments
        /\ PayConcUnchanged

\* PaymentRepository.save of the request's in-memory payment
PaymentSave(p) ==
    /\ p \in DOMAIN procs /\ procs[p].pc = "payment.save"
    /\ IF ~PaymentFullClean(procs[p].row, transactions)
       THEN /\ procs' = [procs EXCEPT ![p].pc = "done",
                                      ![p].result = "ValidationError"]
            /\ UNCHANGED payments
       ELSE /\ payments' = (procs[p].row.payment_id :> procs[p].row) @@ payments
            /\ procs' = [procs EXCEPT ![p].pc = "done", ![p].result = "ok"]
    /\ PayConcUnchanged

PayConcUpdates == UpdatePaymentCommand({1, 2}, {}, {}, {}, {"paid at the desk"})

PayConcInit ==
    /\ customers = FixtureCustomers
    /\ nextCustomerId = 1
    /\ vehicles = FixtureVehicles
    /\ nextVehicleId = 1
    /\ transactions = FixtureTransactions
    /\ nextTransactionId = 2
    /\ payments = PayConcPayments
    /\ nextPaymentId = 2
    /\ obj = None
    /\ lastOp = NoOp
    /\ addresses = <<>>
    /\ nextAddressId = 0
    /\ procs = <<>>
    /\ dispatcher = NoHandlers
    /\ received = <<>>
    /\ heimCustomers = <<>>
    /\ now = 0

PayConcNext ==
    \E p \in 1..MaxRequests :
        \/ \E op \in {"complete", "refund", "cancel"}, payment_id \in {1, 2} :
              TransitionStart(p, op, payment_id)
        \/ \E command \in PayConcUpdates : UpdateStart(p, command)
        \/ PaymentSave(p)

PayConcSpec == PayConcInit /\ [][PayConcNext]_vars

\* ---------------------------------------------------- update specification
\* UpdSpec: the stored customer and the stored vehicle of EventInit are
\* updated through the handle_update of their handlers, with names that are
\* empty, a phone that is normalised and a license plate in lower case.
UpdCustomerUpdates ==
    UpdateCustomerCommand({1, 2}, {<<>>, <<"A", "l">>}, {<<"D", "o", "e">>},
                          {<<>>, <<"+", "1", " ", "5">>})

UpdateMotorVehicleCommand(ids, plates, states) ==
    [vehicle_id : ids, license_plate : Opt(plates), license_plate_state : Opt(states)]

UpdVehicleUpdates ==
    UpdateMotorVehicleCommand({1, 2}, {<<"x", "y", "7">>, <<"X", "Y", "7">>}, {"NY"})

UpdNext ==
    \/ \E command \in UpdCustomerUpdates : CustomerHandleUpdate(command)
    \/ \E command \in UpdVehicleUpdates : VehicleHandleUpdate(command)

UpdSpec == EventInit /\ [][UpdNext]_vars

\* ------------------------------------------------ notification specification
\* NotifySpec: every command of the customer and the vehicle handler that
\* publishes an event is run, with commands that succeed and commands that
\* fail (unknown ids, a blank name, a malformed or duplicate email or VIN, a
\* lower mileage, an unknown status, an owner that does not resolve).
NotifyCustomerCreates ==
    [given_names : {<<"J", "o">>, <<" ">>}, surnames : {<<"D", "o", "e">>},
     email : {Email1, EmailBad}, phone : {<<>>}]

NotifyCustomerUpdates ==
    UpdateCustomerCommand(1..MaxNotifyCustomers, {<<" ">>, <<"A", "l">>}, {}, {})

ChangeMotorVehicleStatusCommand(ids, statuses) == [vehicle_id : ids, status : statuses]

NotifyVehicleCreates ==
    [vin : {Vin1, VinBad}, owner_id : {None}, mileage_km : {1},
     license_plate : {<<>>}, license_plate_state : {""}]

NotifyNext ==
    \/ /\ nextCustomerId < MaxNotifyCustomers
       /\ \E command \in NotifyCustomerCreates : CustomerHandleCreate(command)
    \/ \E command \in NotifyCustomerUpdates : CustomerHandleUpdate(command)
    \/ \E command \in UpdateCustomerEmailCommand(1..MaxNotifyCustomers,
                                                 {Email2, EmailBad}) :
            CustomerHandleUpdateEmail(command)
    \/ \E customer_id \in 1..MaxNotifyCustomers : CustomerHandleDelete(customer_id)
    \/ /\ nextAddressId < MaxNotifyAddresses
       /\ \E command \in AddCustomerAddressCommand(1..MaxNotifyCustomers) :
            command.is_primary /\ CustomerHandleAddAddress(command)
    \/ \E command \in RemoveCustomerAddressCommand(1..MaxNotifyCustomers,
                                                   1..MaxNotifyAddresses) :
            CustomerHandleRemoveAddress(command)
    \/ /\ nextVehicleId < MaxNotifyVehicles
       /\ \E command \in NotifyVehicleCreates : VehicleHandleCreate(command)
    \/ \E command \in UpdateMotorVehicleCommand(1..MaxNotifyVehicles,
                                                {<<"x", "y", "7">>}, {}) :
            VehicleHandleUpdate(command)
    \/ \E command \in UpdateMotorVehicleMileageCommand(1..MaxNotifyVehicles, {0, 2}) :
            VehicleHandleUpdateMileage(command)
    \/ \E command \in ChangeMotorVehicleStatusCommand(1..MaxNotifyVehicles,
                                                      {"sold", "junk"}) :
            VehicleHandleChangeStatus(command)
    \/ \E command \in TransferOwnershipCommand(1..MaxNotifyVehicles,
                                               1..(MaxNotifyCustomers + 1)) :
            VehicleHandleTransferOwnership(command)
    \/ \E vehicle_id \in 1..MaxNotifyVehicles : VehicleHandleDelete(vehicle_id)

NotifySpec == RefInit /\ [][NotifyNext]_vars

\* ------------------------------------------------------------------ claims
Stored(id) == id \in DOMAIN payments

\* the step just taken was handler op on the stored payment p
Ran(op, p) == lastOp'.op = op /\ lastOp'.id = p /\ Stored(p)

C2_RefundIffCompleted ==
    [][\A p \in 1..MaxPayments : Ran("refund", p) =>
          IF payments[p].status = "COMPLETED"
          THEN /\ lastOp'.result = "ok"
               /\ payments' = [payments EXCEPT ![p].status = "REFUNDED"]
          ELSE /\ lastOp'.result = "InvalidPaymentState"
               /\ payments' = payments]_vars

\* a second refund of an already refunded payment has just been rejected
C2_Witness ==
    /\ lastOp.op = "refund" /\ lastOp.result = "InvalidPaymentState"
    /\ lastOp.id \in DOMAIN payments
    /\ payments[lastOp.id].status = "REFUNDED"

TerminalStatuses == {"REFUNDED", "CANCELLED"}

\* C4: REFUNDED and CANCELLED are terminal: a payment stored with one of these
\* statuses keeps it across every handler step for as long as it is stored.
C4_TerminalStatuses ==
    [][\A p \in DOMAIN payments :
          (payments[p].status \in TerminalStatuses /\ p \in DOMAIN payments')
              => payments'[p].status = payments[p].status]_vars

\* an update has just succeeded on a payment that is REFUNDED or CANCELLED
C4_Witness ==
    /\ lastOp.op = "update" /\ lastOp.result = "ok"
    /\ lastOp.id \in DOMAIN payments
    /\ payments[lastOp.id].status \in TerminalStatuses

\* C5: no stored payment ever has status FAILED: the stored status is always
\* one of PENDING, COMPLETED, REFUNDED, CANCELLED.
C5_NeverFailed ==
    \A p \in DOMAIN payments :
        payments[p].status \in {"PENDING", "COMPLETED", "REFUNDED", "CANCELLED"}

\* the table holds a payment refunded after completion and a cancelled one
C5_Witness ==
    /\ \E p \in DOMAIN payments : payments[p].status = "REFUNDED"
    /\ \E p \in DOMAIN payments : payments[p].status = "CANCELLED"

\* C7: update, delete, complete, refund and cancel on a payment id that is not
\* stored raise PaymentNotFound and leave the payments table unchanged.
C7_NotFound ==
    [][(/\ lastOp'.op \in {"update", "delete", "complete", "refund", "cancel"}
        /\ ~Stored(lastOp'.id))
          => /\ lastOp'.result = "PaymentNotFound"
             /\ payments' = payments]_vars

\* a delete of an id that was stored and then deleted has just been rejected
C7_Witness ==
    /\ lastOp.op = "delete" /\ lastOp.result = "PaymentNotFound"
    /\ lastOp.id <= nextPaymentId
    /\ lastOp.id \notin DOMAIN payments

\* what full_clean accepts of the fields an update command supplies
UpdateCommandValid(command) ==
    /\ command.payment_method # None => command.payment_method[1] \in PAYMENT_METHODS
    /\ command.amount # None =>
          DecimalFieldValid(command.amount[1], AmountMaxDigits, AmountDecimalPlaces)
    /\ command.reference_number # None =>
          command.reference_number[1].len <= ReferenceMaxLength

\* the row handle_update is claimed to store: status and transaction kept,
\* each of the four fields replaced exactly when the command supplies it
UpdatedRow(old, command) ==
    [payment_id |-> old.payment_id,
     transaction_id |-> old.transaction_id,
     status |-> old.status,
     payment_method |-> IF command.payment_method = None
                        THEN old.payment_method ELSE command.payment_method[1],
     amount |-> IF command.amount = None THEN old.amount ELSE command.amount[1],
     reference_number |-> IF command.reference_number = None
                          THEN old.reference_number ELSE command.reference_number[1],
     notes |-> IF command.notes = None THEN old.notes ELSE command.notes[1]]

\* C6 as stated: handle_update on a stored payment, in any status, keeps the
\* status and the transaction and stores exactly the fields of the command
\* that are not None, whatever their values.
C6_UpdateFrame_AsStated ==
    [][\A p \in 1..MaxFieldPayments : Ran("update", p) =>
          payments' = [payments EXCEPT ![p] = UpdatedRow(payments[p], lastOp'.cmd)]]_vars

\* C6 amended: handle_update on a stored payment, in any status, whose supplied
\* fields pass model validation keeps the status and the transaction and stores
\* exactly the fields of the command that are not None; when a supplied field
\* fails validation it raises ValidationError and the table is unchanged.
C6_UpdateFrame ==
    [][\A p \in 1..MaxFieldPayments : Ran("update", p) =>
          IF UpdateCommandValid(lastOp'.cmd)
          THEN /\ lastOp'.result = "ok"
               /\ payments' = [payments EXCEPT ![p] =
                                   UpdatedRow(payments[p], lastOp'.cmd)]
          ELSE /\ lastOp'.result = "ValidationError"
               /\ payments' = payments]_vars

\* an update that supplied only the reference number has just succeeded on a
\* REFUNDED payment whose amount and notes had been changed before
C6_Witness ==
    /\ lastOp.op = "update" /\ lastOp.result = "ok"
    /\ lastOp.id \in DOMAIN payments
    /\ lastOp.cmd.reference_number # None
    /\ lastOp.cmd.payment_method = None
    /\ lastOp.cmd.amount = None
    /\ lastOp.cmd.notes = None
    /\ payments[lastOp.id].status = "REFUNDED"
    /\ payments[lastOp.id].reference_number = Ref("REF-67890", 9)
    /\ payments[lastOp.id].amount = Dec(25000, -2)
    /\ payments[lastOp.id].payment_method = "CASH"

\* what full_clean accepts of the fields a create command supplies
CreateCommandValid(command) ==
    /\ command.payment_method \in PAYMENT_METHODS
    /\ DecimalFieldValid(command.amount, AmountMaxDigits, AmountDecimalPlaces)
    /\ command.reference_number.len <= ReferenceMaxLength

\* the table after a create stored the commanded payment as PENDING under pid
CreatedTable(command, pid) ==
    (pid :> [payment_id |-> pid, transaction_id |-> command.transaction_id,
             payment_method |-> command.payment_method, amount |-> command.amount,
             status |-> "PENDING", reference_number |-> command.reference_number,
             notes |-> command.notes]) @@ payments

\* C8 as stated: handle_create stores a new PENDING payment linked to the
\* commanded transaction whenever that transaction exists; when it does not
\* exist it raises ValueError('... not found') and stores nothing.
C8_Create_AsStated ==
    [][lastOp'.op = "create" =>
          IF lastOp'.cmd.transaction_id \in DOMAIN transactions
          THEN /\ lastOp'.result = "ok"
               /\ lastOp'.ret \notin DOMAIN payments
               /\ payments' = CreatedTable(lastOp'.cmd, lastOp'.ret)
          ELSE /\ lastOp'.result = "ValueError: not found"
               /\ payments' = payments]_vars

\* C8 amended: when the commanded transaction exists and the command's fields
\* pass model validation, handle_create stores a new PENDING payment linked to
\* that transaction; when the transaction exists but a field fails validation
\* it raises ValidationError and stores nothing; when the transaction id does
\* not resolve it raises ValueError('... not found') and stores nothing.
C8_Create ==
    [][lastOp'.op = "create" =>
          IF lastOp'.cmd.transaction_id \notin DOMAIN transactions
          THEN /\ lastOp'.result = "ValueError: not found"
               /\ payments' = payments
          ELSE IF CreateCommandValid(lastOp'.cmd)
          THEN /\ lastOp'.result = "ok"
               /\ lastOp'.ret \notin DOMAIN payments
               /\ payments' = CreatedTable(lastOp'.cmd, lastOp'.ret)
          ELSE /\ lastOp'.result = "ValidationError"
               /\ payments' = payments]_vars

\* a create has just stored a PENDING payment linked to its transaction
C8_Witness ==
    /\ lastOp.op = "create" /\ lastOp.result = "ok"
    /\ lastOp.ret \in DOMAIN payments
    /\ payments[lastOp.ret].status = "PENDING"
    /\ payments[lastOp.ret].transaction_id = lastOp.cmd.transaction_id

\* C9 as stated: the mutation methods enforce the state machine themselves:
\* Payment.complete() sets COMPLETED only from PENDING and otherwise raises
\* leaving the status unchanged, refund() raises unless the status is
\* COMPLETED and cancel() raises unless it is PENDING.
C9_AggregateGuards ==
    [][/\ lastOp'.op = "Payment.complete" =>
            IF obj.status = "PENDING"
            THEN lastOp'.result = "ok" /\ obj'.status = "COMPLETED"
            ELSE lastOp'.result = "ValueError" /\ obj'.status = obj.status
       /\ lastOp'.op = "Payment.refund" =>
            IF obj.status = "COMPLETED"
            THEN lastOp'.result = "ok" /\ obj'.status = "REFUNDED"
            ELSE lastOp'.result = "ValueError" /\ obj'.status = obj.status
       /\ lastOp'.op = "Payment.cancel" =>
            IF obj.status = "PENDING"
            THEN lastOp'.result = "ok" /\ obj'.status = "CANCELLED"
            ELSE lastOp'.result = "ValueError" /\ obj'.status = obj.status]_vars

\* every stored payment references a stored transaction, every stored
\* transaction a stored customer and a stored vehicle
RefIntegrity ==
    /\ \A p \in DOMAIN payments : payments[p].transaction_id \in DOMAIN transactions
    /\ \A t \in DOMAIN transactions :
          /\ transactions[t].customer_id \in DOMAIN customers
          /\ transactions[t].vehicle_id \in DOMAIN vehicles

\* the step was a delete of a row that other rows still reference
BlockedDelete ==
    \/ /\ lastOp'.op = "transaction.delete" /\ lastOp'.id \in DOMAIN transactions
       /\ \E p \in DOMAIN payments : payments[p].transaction_id = lastOp'.id
    \/ /\ lastOp'.op = "customer.delete" /\ lastOp'.id \in DOMAIN customers
       /\ \E t \in DOMAIN transactions : transactions[t].customer_id = lastOp'.id
    \/ /\ lastOp'.op = "vehicle.delete" /\ lastOp'.id \in DOMAIN vehicles
       /\ \E t \in DOMAIN transactions : transactions[t].vehicle_id = lastOp'.id

\* C10: in every reachable state each payment references a stored transaction
\* and each transaction a stored customer and a stored vehicle; a delete of a
\* transaction that still has payments, or of a customer or vehicle that still
\* has transactions, raises and removes nothing.
C10_ReferentialIntegrity ==
    /\ []RefIntegrity
    /\ [][BlockedDelete =>
            /\ lastOp'.result = "ProtectedError"
            /\ UNCHANGED <<customers, vehicles, transactions, payments>>]_vars

\* the delete of a transaction that still has a payment has just been blocked
C10_Witness ==
    /\ lastOp.op = "transaction.delete" /\ lastOp.result = "ProtectedError"
    /\ lastOp.id \in DOMAIN transactions
    /\ \E p \in DOMAIN payments : payments[p].transaction_id = lastOp.id
    /\ transactions[lastOp.id].customer_id \in DOMAIN customers

\* the primary addresses of customer c in an addresses table
PrimaryOf(table, c) ==
    {a \in DOMAIN table : table[a].customer_id = c /\ table[a].is_primary}

\* the rows of an addresses table that do not belong to customer c
OthersOf(table, c) ==
    [a \in {x \in DOMAIN table : table[x].customer_id # c} |-> table[a]]

\* C11: in every state reached by add_address and remove_address calls run
\* one after another each customer has at most one primary address; right
\* after add_address with is_primary = true the new address is the customer's
\* only primary address; add_address leaves other customers' addresses alone.
C11_OnePrimary ==
    /\ [](\A c \in 1..(MaxAddrCustomers + 1) : Cardinality(PrimaryOf(addresses, c)) <= 1)
    /\ [][lastOp'.op = "customer.add_address" /\ lastOp'.result = "ok" =>
            /\ lastOp'.ret \in DOMAIN addresses' \ DOMAIN addresses
            /\ lastOp'.cmd.is_primary =>
                 PrimaryOf(addresses', lastOp'.id) = {lastOp'.ret}
            /\ OthersOf(addresses', lastOp'.id) = OthersOf(addresses, lastOp'.id)]_vars

\* a second primary address has just been added to a customer while another
\* customer keeps a primary address of its own
C11_Witness ==
    /\ lastOp.op = "customer.add_address" /\ lastOp.result = "ok"
    /\ lastOp.cmd.is_primary
    /\ \E a \in DOMAIN addresses :
          /\ a # lastOp.ret
          /\ addresses[a].customer_id = lastOp.id
    /\ \E a \in DOMAIN addresses :
          addresses[a].customer_id # lastOp.id /\ addresses[a].is_primary

\* C13: handle_remove_address on a stored customer never raises; it returns
\* true, removes exactly that row and publishes one CustomerAddressRemoved when
\* the address id exists and belongs to the customer; otherwise (unknown id, or
\* another customer's address) it returns false, removes nothing and publishes
\* nothing; repeated at once with the same command it returns false.
C13_RemoveAddress ==
    [][lastOp'.op = "customer.remove_address" /\ lastOp'.id \in DOMAIN customers =>
        LET id == lastOp'.id
            aid == lastOp'.cmd.address_id
            existed == aid \in DOMAIN addresses /\ addresses[aid].customer_id = id
        IN  /\ lastOp'.result = "ok"
            /\ lastOp'.ret = existed
            /\ existed => /\ addresses' = Without(addresses, aid)
                          /\ lastOp'.events = <<CustomerAddressRemoved(id, aid)>>
            /\ ~existed => addresses' = addresses /\ lastOp'.events = <<>>
            /\ (lastOp.op = "customer.remove_address" /\ lastOp.result = "ok"
                /\ lastOp.cmd = lastOp'.cmd) => lastOp'.ret = FALSE]_vars

\* a removal naming another customer's address has just returned false and
\* left that address stored
C13_Witness ==
    /\ lastOp.op = "customer.remove_address" /\ lastOp.result = "ok"
    /\ lastOp.ret = FALSE
    /\ lastOp.cmd.address_id \in DOMAIN addresses
    /\ addresses[lastOp.cmd.address_id].customer_id # lastOp.id

\* C12: add_address with is_primary = true is atomic: with requests that
\* interleave between the statement that clears the old primary flags and the
\* statement that inserts the new address, no state has two primary addresses
\* for one customer, and no state shows the old primary cleared while the new
\* primary address is not yet stored.
C12_AtomicAddAddress ==
    /\ \A c \in DOMAIN customers : Cardinality(PrimaryOf(addresses, c)) <= 1
    /\ \A p \in DOMAIN procs :
          (At(p, "add_address", "insert") /\ procs[p].cleared # {})
              => PrimaryOf(addresses, procs[p].id) # {}

\* C15: when two creations or email updates for the same email have both
\* passed the get_by_email pre-check and both have finished, exactly one of
\* them stored its customer and the other failed with CustomerAlreadyExists.
C15_RaceIsAlreadyExists ==
    \A p, q \in DOMAIN procs :
        (/\ p # q
         /\ procs[p].pc = "done" /\ procs[q].pc = "done"
         /\ procs[p].prechecked /\ procs[q].prechecked
         /\ procs[p].row.email = procs[q].row.email)
        => \/ procs[p].result = "ok" /\ procs[q].result = "CustomerAlreadyExists"
           \/ procs[q].result = "ok" /\ procs[p].result = "CustomerAlreadyExists"

NoRealChange(command, customer) ==
    /\ command.given_names # None => command.given_names[1] = customer.given_names
    /\ command.surnames # None => command.surnames[1] = customer.surnames
    /\ command.phone # None => command.phone[1] = customer.phone

\* C16: a command that changes nothing succeeds, leaves the stored row as it
\* is and publishes no event: handle_update with no field or only stored
\* values, handle_update_email to the current email, handle_update_mileage
\* with the stored mileage.
C16_NoChangeNoEvent ==
    [][/\ (/\ lastOp'.op = "customer.update" /\ lastOp'.id \in DOMAIN customers
           /\ NoRealChange(lastOp'.cmd, customers[lastOp'.id]))
          => /\ lastOp'.result = "ok" /\ customers' = customers
             /\ lastOp'.events = <<>>
       /\ (/\ lastOp'.op = "customer.update_email" /\ lastOp'.id \in DOMAIN customers
           /\ lastOp'.cmd.email = customers[lastOp'.id].email)
          => /\ lastOp'.result = "ok" /\ customers' = customers
             /\ lastOp'.events = <<>>
       /\ (/\ lastOp'.op = "vehicle.update_mileage" /\ lastOp'.id \in DOMAIN vehicles
           /\ lastOp'.cmd.mileage_km = vehicles[lastOp'.id].mileage_km)
          => /\ lastOp'.result = "ok" /\ vehicles' = vehicles
             /\ lastOp'.events = <<>>]_vars

\* C17: handle_update on a stored customer with given_names or surnames
\* explicitly the empty string validates it through PersonName and rejects
\* it, leaving the stored customer unchanged.
C17_EmptyNameRejected ==
    [][(/\ lastOp'.op = "customer.update" /\ lastOp'.id \in DOMAIN customers
        /\ \/ lastOp'.cmd.given_names = Some(<<>>)
           \/ lastOp'.cmd.surnames = Some(<<>>))
       => lastOp'.result = "ValueError" /\ customers' = customers]_vars

\* C18: the stored mileage_km of a vehicle never decreases; on a stored
\* vehicle handle_update_mileage with a value greater than or equal to the
\* stored one succeeds and stores it, and with a strictly smaller value it is
\* rejected and the vehicles table is unchanged.
C18_MileageMonotonic ==
    [][/\ \A v \in DOMAIN vehicles \cap DOMAIN vehicles' :
             vehicles'[v].mileage_km >= vehicles[v].mileage_km
       /\ (lastOp'.op = "vehicle.update_mileage" /\ lastOp'.id \in DOMAIN vehicles)
          => IF lastOp'.cmd.mileage_km >= vehicles[lastOp'.id].mileage_km
             THEN /\ lastOp'.result = "ok"
                  /\ vehicles' = [vehicles EXCEPT
                                    ![lastOp'.id].mileage_km = lastOp'.cmd.mileage_km]
             ELSE /\ lastOp'.result # "ok"
                  /\ vehicles' = vehicles]_vars

\* an update to less than the stored mileage has just been rejected
C18_Witness ==
    /\ lastOp.op = "vehicle.update_mileage" /\ lastOp.result = "ValueError"
    /\ lastOp.id \in DOMAIN vehicles
    /\ lastOp.cmd.mileage_km < vehicles[lastOp.id].mileage_km

\* C19: handle_transfer_ownership on a stored vehicle to an owner that is
\* absent or resolves succeeds; when the target equals the current owner
\* (same id, or both absent) it publishes nothing, otherwise it publishes
\* exactly one MotorVehicleOwnerChanged carrying the old and the new owner id.
C19_TransferEvent ==
    [][(/\ lastOp'.op = "vehicle.transfer_ownership"
        /\ lastOp'.id \in DOMAIN vehicles
        /\ lastOp'.cmd.new_owner_id # None
              => lastOp'.cmd.new_owner_id[1] \in DOMAIN customers)
       => LET old == vehicles[lastOp'.id].owner_id
              new == lastOp'.cmd.new_owner_id
          IN  /\ lastOp'.result = "ok"
              /\ vehicles' = [vehicles EXCEPT ![lastOp'.id].owner_id = new]
              /\ lastOp'.events =
                    IF old = new THEN <<>>
                    ELSE <<MotorVehicleOwnerChanged(lastOp'.id, old, new)>>]_vars

\* a transfer to the customer who already owns the vehicle has just
\* succeeded without an event
C19_Witness ==
    /\ lastOp.op = "vehicle.transfer_ownership" /\ lastOp.result = "ok"
    /\ lastOp.events = <<>>
    /\ lastOp.cmd.new_owner_id # None
    /\ lastOp.id \in DOMAIN vehicles
    /\ vehicles[lastOp.id].owner_id = lastOp.cmd.new_owner_id

\* why the vehicle handler call l fails on the tables vs (vehicles) and cs
\* (customers): a mileage decrease, an owner id that does not resolve, a
\* malformed VIN, or none of these
FailureCause(l, vs, cs) ==
    IF l.op = "vehicle.update_mileage"
    THEN IF l.id \in DOMAIN vs /\ l.cmd.mileage_km < vs[l.id].mileage_km
         THEN "mileage decrease" ELSE "none"
    ELSE IF l.op = "vehicle.transfer_ownership"
    THEN IF l.id \in DOMAIN vs /\ l.cmd.new_owner_id # None
            /\ l.cmd.new_owner_id[1] \notin DOMAIN cs
         THEN "owner not found" ELSE "none"
    ELSE IF l.op = "vehicle.create"
    THEN IF ~VinIsValid(VinNormalize(l.cmd.vin)) THEN "malformed VIN" ELSE "none"
    ELSE "none"

\* C20: a vehicle handler call that fails for a mileage decrease, an
\* unresolved new owner or a malformed VIN leaves the vehicles unchanged, and
\* two consecutive such failures with different causes are raised with
\* different error kinds.
C20_DistinctErrorKinds ==
    [][FailureCause(lastOp', vehicles, customers) # "none"
       => /\ lastOp'.result # "ok"
          /\ vehicles' = vehicles
          /\ (/\ lastOp.result # "ok"
              /\ FailureCause(lastOp, vehicles, customers)
                    \notin {"none", FailureCause(lastOp', vehicles, customers)})
             => lastOp'.result # lastOp.result]_vars

\* the VIN without its spaces and hyphens, in upper case
VinKey(vin) == Strip(ToUpper(vin), {" ", "-"})

\* C21: after any sequence of vehicle handle_create and handle_delete no two
\* stored vehicles have the same normalized VIN, and a handle_create whose
\* VIN equals a stored one up to letter case, spaces and hyphens fails with
\* MotorVehicleAlreadyExists and stores nothing.
C21_UniqueNormalizedVin ==
    /\ [](\A v, w \in DOMAIN vehicles :
             v # w => VinKey(vehicles[v].vin) # VinKey(vehicles[w].vin))
    /\ [][(/\ lastOp'.op = "vehicle.create"
           /\ \E v \in DOMAIN vehicles :
                 VinKey(vehicles[v].vin) = VinKey(lastOp'.cmd.vin))
          => /\ lastOp'.result = "MotorVehicleAlreadyExists"
             /\ vehicles' = vehicles]_vars

\* a create whose VIN is a stored one written in lower case with a hyphen
\* has just been rejected
C21_Witness ==
    /\ lastOp.op = "vehicle.create"
    /\ lastOp.result = "MotorVehicleAlreadyExists"
    /\ lastOp.cmd.vin = Vin1Lower
    /\ \E v \in DOMAIN vehicles : vehicles[v].vin = Vin1

\* the characters a VIN may contain: A-H, J-N, P, R-Z and 0-9
VinAlphabet ==
    {"A","B","C","D","E","F","G","H","J","K","L","M","N","P","R","S","T","U",
     "V","W","X","Y","Z","0","1","2","3","4","5","6","7","8","9"}

\* C22: VIN(v) succeeds exactly when v in upper case without spaces and
\* hyphens has 17 characters, all of them in A-H, J-N, P, R-Z, 0-9; the
\* instance then holds that normalized value, and constructing a VIN from the
\* value of a VIN gives the same value again.
C22_VinNormalizeIdempotent ==
    [][lastOp'.op = "VIN"
       => LET v == lastOp'.cmd.value
              n == VinKey(v)
          IN  /\ lastOp'.result = "ok"
                    <=> (Len(n) = 17 /\ \A i \in DOMAIN n : n[i] \in VinAlphabet)
              /\ lastOp'.result = "ok" => obj' = [class |-> "VIN", value |-> n]
              /\ lastOp'.result # "ok" => lastOp'.result = "ValueError"
              /\ (IsInstance("VIN") /\ v = obj.value)
                    => lastOp'.result = "ok" /\ obj'.value = obj.value]_vars

\* a VIN written with lower-case letters, a space or a hyphen has just been
\* accepted and normalized
C22_Witness ==
    /\ lastOp.op = "VIN" /\ lastOp.result = "ok"
    /\ IsInstance("VIN")
    /\ lastOp.cmd.value # obj.value
    /\ Len(lastOp.cmd.value) > 17

\* C23: the value of a PhoneNumber consists of digits only, optionally
\* preceded by one '+' as its first character.
C23_PhoneSingleLeadingPlus ==
    IsInstance("PhoneNumber")
    => \A i \in DOMAIN obj.value :
          \/ obj.value[i] \in Digits
          \/ i = 1 /\ obj.value[i] = "+"

\* the calls of the handlers of list, in order, with an event of type t
CallsOf(list, t) == [i \in DOMAIN list |-> [handler |-> list[i], event |-> t]]

\* C24: a publish that returns has called exactly the handlers subscribed to
\* the event's type, once per subscription and in registration order, and
\* leaves the subscriptions as they are; subscribe adds the handler after
\* those registered for that type, unsubscribe removes one subscription of
\* that handler from that type only, and clear removes every subscription.
C24_PublishInOrder ==
    [][/\ (lastOp'.op = "publish" /\ lastOp'.result = "ok")
          => /\ received' = CallsOf(dispatcher[lastOp'.cmd.event_type],
                                    lastOp'.cmd.event_type)
             /\ dispatcher' = dispatcher
       /\ lastOp'.op = "subscribe"
          => LET t == lastOp'.cmd.event_type
             IN  /\ dispatcher'[t] = dispatcher[t] \o <<lastOp'.cmd.handler>>
                 /\ \A u \in EventTypes \ {t} : dispatcher'[u] = dispatcher[u]
       /\ lastOp'.op = "unsubscribe"
          => LET t == lastOp'.cmd.event_type
                 h == lastOp'.cmd.handler
                 at == {i \in DOMAIN dispatcher[t] : dispatcher[t][i] = h}
             IN  /\ \A u \in EventTypes \ {t} : dispatcher'[u] = dispatcher[u]
                 /\ at = {} => dispatcher'[t] = dispatcher[t]
                 /\ at # {} =>
                      \E i \in at :
                         dispatcher'[t] = SubSeq(dispatcher[t], 1, i - 1)
                                          \o SubSeq(dispatcher[t], i + 1, Len(dispatcher[t]))
       /\ lastOp'.op = "clear"
          => \A t \in EventTypes : dispatcher'[t] = <<>>]_vars

\* a publish has just called h2 and then h1, registered in that order, while
\* a handler subscribed to the other event type was not called
C24_Witness ==
    /\ lastOp.op = "publish" /\ lastOp.result = "ok"
    /\ lastOp.cmd.event_type = "CustomerCreated"
    /\ received = CallsOf(<<"h2", "h1">>, "CustomerCreated")
    /\ dispatcher["CustomerUpdated"] # <<>>

\* the number of occurrences of x in list
Count(list, x) == Cardinality({i \in DOMAIN list : list[i] = x})
\* the handlers called, from the calls made
Called(calls) == [i \in DOMAIN calls |-> calls[i].handler]

\* C29: a publish during which handlers unsubscribe themselves or an earlier
\* handler, or subscribe a handler, calls no handler more often than it was
\* subscribed when the publish began, and calls every handler that was
\* subscribed then and is still subscribed afterwards once per subscription.
C29_ReentrantPublish ==
    [][(lastOp'.op = "publish" /\ lastOp'.result = "ok")
       => LET before == dispatcher[lastOp'.cmd.event_type]
              after == dispatcher'[lastOp'.cmd.event_type]
          IN  \A h \in Range(before) :
                 /\ Count(Called(received'), h) <= Count(before, h)
                 /\ Count(after, h) >= Count(before, h)
                    => Count(Called(received'), h) = Count(before, h)]_vars

\* C26: saving a new customer, whose email no stored customer has, stores it
\* under a generated customer_id that no stored customer has and leaves the
\* stored rows as they are; saving a stored customer keeps its customer_id
\* and the set of stored ids.
C26_UniqueCustomerId ==
    [][lastOp'.op = "heim.save"
       => IF lastOp'.id = None
          THEN (\A c \in DOMAIN heimCustomers :
                   heimCustomers[c].email # lastOp'.cmd.email)
               => /\ lastOp'.result = "ok"
                  /\ lastOp'.ret # None
                  /\ lastOp'.ret[1] \notin DOMAIN heimCustomers
                  /\ DOMAIN heimCustomers' = DOMAIN heimCustomers \cup {lastOp'.ret[1]}
                  /\ \A c \in DOMAIN heimCustomers : heimCustomers'[c] = heimCustomers[c]
          ELSE /\ DOMAIN heimCustomers' = DOMAIN heimCustomers
               /\ lastOp'.result = "ok" => lastOp'.ret = lastOp'.id]_vars

\* the requests that ran the transition handler op on payment_id and returned
\* the payment
Succeeded(op, payment_id) ==
    {p \in DOMAIN procs : /\ procs[p].op = op /\ procs[p].id = payment_id
                          /\ procs[p].result = "ok"}

\* C27: of the transition requests on one payment that returned success, no
\* transition succeeded twice, complete and cancel did not both succeed, and
\* a refund succeeded on a payment that started PENDING only together with a
\* complete: the successes form a path of the state machine.
C27_TransitionsFormPath ==
    \A payment_id \in DOMAIN payments :
        /\ \A op \in {"complete", "refund", "cancel"} :
              Cardinality(Succeeded(op, payment_id)) <= 1
        /\ ~(Succeeded("complete", payment_id) # {} /\ Succeeded("cancel", payment_id) # {})
        /\ ~(Succeeded("refund", payment_id) # {} /\ Succeeded("cancel", payment_id) # {})
        /\ (Succeeded("refund", payment_id) # {}
            /\ PayConcPayments[payment_id].status = "PENDING")
           => Succeeded("complete", payment_id) # {}

\* C28: when a handle_update and the only transition request on the same
\* payment have both returned success, the stored status is the one the
\* transition wrote.
C28_UpdateKeepsStatus ==
    \A p, q \in DOMAIN procs :
        (/\ procs[p].op = "update" /\ procs[p].result = "ok"
         /\ procs[q].op \in {"complete", "refund", "cancel"} /\ procs[q].result = "ok"
         /\ procs[q].id = procs[p].id
         /\ \A r \in DOMAIN procs \ {p, q} :
               procs[r].id = procs[p].id => procs[r].pc = "done" /\ procs[r].result # "ok")
        => payments[procs[p].id].status = procs[q].row.status

\* C30: every (field, value) pair in the changes of a CustomerUpdated or
\* MotorVehicleUpdated event is the value of that field in the row the
\* update stored.
C30_ChangesDescribeStored ==
    [][\A i \in DOMAIN lastOp'.events :
          LET event == lastOp'.events[i]
          IN  /\ event.type = "CustomerUpdated"
                 => \A k \in DOMAIN event.changes :
                       customers'[event.customer_id][event.changes[k][1]]
                          = event.changes[k][2]
              /\ event.type = "MotorVehicleUpdated"
                 => \A k \in DOMAIN event.changes :
                       vehicles'[event.vehicle_id][event.changes[k][1]]
                          = event.changes[k][2]]_vars

====
